---------------------------- MODULE Spec2Model ----------------------------
(***************************************************************************)
(* LinkedIn MCP server (src/src/index.ts, hand-rolled field-pruning        *)
(* variant, lines 1-1001).  A tool call is the CallToolRequestSchema       *)
(* handler: it runs without interruption up to the await on the HTTP GET   *)
(* (CallTool), and again from the arrival of the remote outcome to the end *)
(* (RemoteSuccess / RemoteFailure).                                        *)
(*                                                                         *)
(* Spec serves one call with every name, argument object and remote        *)
(* outcome; ShapeSpec serves it with long envelopes; ConcSpec interleaves  *)
(* calls in every slot; CatalogSpec adds the ListToolsRequestSchema        *)
(* handler.  apiKey and apiClient are the instance fields set by the       *)
(* constructor.                                                            *)
(*                                                                         *)
(* JavaScript values are records [t, s, n]; JavaScript objects are         *)
(* functions whose DOMAIN is the set of own keys; strings that the claims  *)
(* inspect are sequences of tokens, concatenated with \o.                  *)
(***************************************************************************)
EXTENDS Integers, Sequences, FiniteSets, TLC

VARIABLES pc, name, args, requests, response, result, dirs, files, apiKey, apiClient

vars == <<pc, name, args, requests, response, result, dirs, files, apiKey, apiClient>>

---------------------------------------------------------------------------
(* Bounds of the model *)

\* concurrent call slots
MaxCalls == 2
\* the largest number of arguments supplied in one invocation
MaxArgs == 2
\* the largest max_items value supplied
MaxItemsArg == 2
\* the largest number of raw elements in a collection envelope
MaxRaw == 3
\* the largest length of a profile sub-list
MaxSub == 1
\* clock readings 0..MaxClock seen by saveData
MaxClock == 1
\* the largest number of raw elements in a long collection envelope
MaxRawLong == 12
\* the largest length of a sub-list of a long profile
MaxSubLong == 7

CallIds == 1..MaxCalls

---------------------------------------------------------------------------
(* JavaScript values *)

Undefined == [t |-> "undefined", s |-> "", n |-> 0]
Str(x) == [t |-> "string", s |-> x, n |-> 0]
Num(x) == [t |-> "number", s |-> "", n |-> x]
Bool(b) == [t |-> "boolean", s |-> "", n |-> IF b THEN 1 ELSE 0]

\* ToBoolean: '', 0, false, null and undefined are falsy; objects are truthy
Truthy(v) ==
    \/ v.t = "string" /\ v.s # ""
    \/ v.t = "number" /\ v.n # 0
    \/ v.t = "boolean" /\ v.n = 1
    \/ v.t \in {"object", "array"}

\* obj.k : undefined when k is not an own key
Get(obj, k) == IF k \in DOMAIN obj THEN obj[k] ELSE Undefined

EmptyObject == [k \in {} |-> Undefined]

Contains(msg, tok) == \E i \in 1..Len(msg) : msg[i] = tok

Min(a, b) == IF a < b THEN a ELSE b
Max(a, b) == IF a > b THEN a ELSE b

\* Array.prototype.slice(0, end)
slice(s, end) ==
    LET k == IF end < 0 THEN Max(Len(s) + end, 0) ELSE Min(end, Len(s))
    IN  SubSeq(s, 1, k)

---------------------------------------------------------------------------
(* Error codes of the protocol *)

InvalidParams == -32602
MethodNotFound == -32601
InternalError == -32603

McpError(code, message) == [cls |-> "McpError", code |-> code, message |-> message]
Error(message) == [cls |-> "Error", code |-> 0, message |-> message]

---------------------------------------------------------------------------
(* The tool methods.  Each record transcribes one method of the class:     *)
(*   always  : keys copied unconditionally   ({ search: args.search })     *)
(*   truthy  : keys copied when truthy       (if (args.k) params.k = ...)  *)
(*   defined : keys copied when !== undefined                              *)
(*   rule    : the keys of the "at least one of" check, in message order   *)
(*   ruleMsg : the text of the Error thrown when the check fails           *)
(*   shape   : how the envelope is cleaned ("profile", "single", "list")   *)
(*   defaultMax : the default of args.max_items || d  (0: no max_items)    *)
(*   pagination : whether data.pagination is handed to formatResponse      *)

NoMethod ==
    [tool |-> "", endpoint |-> "", always |-> {}, truthy |-> {}, defined |-> {},
     rule |-> <<>>, ruleMsg |-> <<>>, shape |-> "none", cleaner |-> "",
     defaultMax |-> 0, pagination |-> FALSE]

getProfile ==
    [tool |-> "get_profile", endpoint |-> "/profile", always |-> {},
     truthy |-> {"url", "publicIdentifier", "profileId", "findEmail", "includeAboutProfile"},
     defined |-> {},
     rule |-> <<"url", "publicIdentifier", "profileId">>,
     ruleMsg |-> <<"At least one of ", "url", ", ", "publicIdentifier", ", or ",
                   "profileId", " is required">>,
     shape |-> "profile", cleaner |-> "cleanProfile", defaultMax |-> 5,
     pagination |-> FALSE]

searchProfiles ==
    [tool |-> "search_profiles", endpoint |-> "/profile-search", always |-> {"search"},
     truthy |-> {"currentCompany", "pastCompany", "school", "firstName", "lastName",
                 "title", "location", "geoId", "industryId", "page"},
     defined |-> {}, rule |-> <<>>, ruleMsg |-> <<>>,
     shape |-> "list", cleaner |-> "cleanProfileSearchResult", defaultMax |-> 10,
     pagination |-> TRUE]

getProfilePosts ==
    [tool |-> "get_profile_posts", endpoint |-> "/profile-posts", always |-> {},
     truthy |-> {"profile", "profileId", "profilePublicIdentifier", "postedLimit",
                 "page", "paginationToken"},
     defined |-> {},
     rule |-> <<"profile", "profileId", "profilePublicIdentifier">>,
     ruleMsg |-> <<"At least one of ", "profile", ", ", "profileId", ", or ",
                   "profilePublicIdentifier", " is required">>,
     shape |-> "list", cleaner |-> "cleanPost", defaultMax |-> 10, pagination |-> TRUE]

getProfileComments ==
    [tool |-> "get_profile_comments", endpoint |-> "/profile-comments", always |-> {},
     truthy |-> {"profile", "profileId", "postedLimit", "page", "paginationToken"},
     defined |-> {},
     rule |-> <<"profile", "profileId">>,
     ruleMsg |-> <<"At least one of ", "profile", " or ", "profileId", " is required">>,
     shape |-> "list", cleaner |-> "cleanComment", defaultMax |-> 10, pagination |-> TRUE]

getProfileReactions ==
    [tool |-> "get_profile_reactions", endpoint |-> "/profile-reactions", always |-> {},
     truthy |-> {"profile", "profileId", "page", "paginationToken"},
     defined |-> {},
     rule |-> <<"profile", "profileId">>,
     ruleMsg |-> <<"At least one of ", "profile", " or ", "profileId", " is required">>,
     shape |-> "list", cleaner |-> "cleanReaction", defaultMax |-> 10, pagination |-> TRUE]

getCompany ==
    [tool |-> "get_company", endpoint |-> "/company", always |-> {},
     truthy |-> {"url", "universalName", "search"},
     defined |-> {},
     rule |-> <<"url", "universalName", "search">>,
     ruleMsg |-> <<"At least one of ", "url", ", ", "universalName", ", or ",
                   "search", " is required">>,
     shape |-> "single", cleaner |-> "cleanCompany", defaultMax |-> 0,
     pagination |-> FALSE]

searchCompanies ==
    [tool |-> "search_companies", endpoint |-> "/company-search", always |-> {"search"},
     truthy |-> {"location", "geoId", "companySize", "page"},
     defined |-> {}, rule |-> <<>>, ruleMsg |-> <<>>,
     shape |-> "list", cleaner |-> "cleanCompany", defaultMax |-> 10, pagination |-> TRUE]

getCompanyPosts ==
    [tool |-> "get_company_posts", endpoint |-> "/company-posts", always |-> {},
     truthy |-> {"company", "companyId", "companyUniversalName", "postedLimit",
                 "page", "paginationToken"},
     defined |-> {},
     rule |-> <<"company", "companyId", "companyUniversalName">>,
     ruleMsg |-> <<"At least one of ", "company", ", ", "companyId", ", or ",
                   "companyUniversalName", " is required">>,
     shape |-> "list", cleaner |-> "cleanPost", defaultMax |-> 10, pagination |-> TRUE]

getJob ==
    [tool |-> "get_job", endpoint |-> "/job", always |-> {},
     truthy |-> {"jobId", "url"},
     defined |-> {},
     rule |-> <<"jobId", "url">>,
     ruleMsg |-> <<"At least one of ", "jobId", " or ", "url", " is required">>,
     shape |-> "single", cleaner |-> "cleanJob", defaultMax |-> 0, pagination |-> FALSE]

searchJobs ==
    [tool |-> "search_jobs", endpoint |-> "/job-search", always |-> {},
     truthy |-> {"search", "companyId", "location", "geoId", "sortBy", "workplaceType",
                 "employmentType", "salary", "postedLimit", "experienceLevel",
                 "industryId", "functionId", "under10Applicants", "page"},
     defined |-> {"easyApply"}, rule |-> <<>>, ruleMsg |-> <<>>,
     shape |-> "list", cleaner |-> "cleanJobSearchResult", defaultMax |-> 10,
     pagination |-> TRUE]

getPost ==
    [tool |-> "get_post", endpoint |-> "/post", always |-> {"url"},
     truthy |-> {}, defined |-> {}, rule |-> <<>>, ruleMsg |-> <<>>,
     shape |-> "single", cleaner |-> "cleanPost", defaultMax |-> 0, pagination |-> FALSE]

searchPosts ==
    [tool |-> "search_posts", endpoint |-> "/post-search", always |-> {},
     truthy |-> {"search", "profile", "profileId", "company", "companyId",
                 "authorsCompany", "authorsCompanyId", "group", "postedLimit",
                 "sortBy", "page", "paginationToken"},
     defined |-> {}, rule |-> <<>>, ruleMsg |-> <<>>,
     shape |-> "list", cleaner |-> "cleanPost", defaultMax |-> 10, pagination |-> TRUE]

getPostComments ==
    [tool |-> "get_post_comments", endpoint |-> "/post-comments", always |-> {"post"},
     truthy |-> {"sortBy", "page", "paginationToken"},
     defined |-> {}, rule |-> <<>>, ruleMsg |-> <<>>,
     shape |-> "list", cleaner |-> "cleanComment", defaultMax |-> 10, pagination |-> TRUE]

getPostReactions ==
    [tool |-> "get_post_reactions", endpoint |-> "/post-reactions", always |-> {"post"},
     truthy |-> {"page"},
     defined |-> {}, rule |-> <<>>, ruleMsg |-> <<>>,
     shape |-> "list", cleaner |-> "cleanReaction", defaultMax |-> 10, pagination |-> TRUE]

getGroup ==
    [tool |-> "get_group", endpoint |-> "/group", always |-> {},
     truthy |-> {"url", "groupId"},
     defined |-> {},
     rule |-> <<"url", "groupId">>,
     ruleMsg |-> <<"At least one of ", "url", " or ", "groupId", " is required">>,
     shape |-> "single", cleaner |-> "cleanGroup", defaultMax |-> 0, pagination |-> FALSE]

searchGroups ==
    [tool |-> "search_groups", endpoint |-> "/group-search", always |-> {"search"},
     truthy |-> {"page"},
     defined |-> {}, rule |-> <<>>, ruleMsg |-> <<>>,
     shape |-> "list", cleaner |-> "cleanGroup", defaultMax |-> 10, pagination |-> TRUE]

\* a variant of searchGeoId that sends its request to the group search path
searchGeoIdOnGroupSearch ==
    [tool |-> "search_geo_id", endpoint |-> "/group-search", always |-> {"search"},
     truthy |-> {}, defined |-> {}, rule |-> <<>>, ruleMsg |-> <<>>,
     shape |-> "list", cleaner |-> "cleanGeoId", defaultMax |-> 10, pagination |-> FALSE]

searchGeoId ==
    [tool |-> "search_geo_id", endpoint |-> "/geo-id-search", always |-> {"search"},
     truthy |-> {}, defined |-> {}, rule |-> <<>>, ruleMsg |-> <<>>,
     shape |-> "list", cleaner |-> "cleanGeoId", defaultMax |-> 10, pagination |-> FALSE]

\* the switch of the CallToolRequestSchema handler; NoMethod is the default branch
DispatchDefaultsToProfile(toolName) ==
    CASE toolName = "get_profile" -> getProfile
      [] toolName = "search_profiles" -> searchProfiles
      [] toolName = "get_profile_posts" -> getProfilePosts
      [] toolName = "get_profile_comments" -> getProfileComments
      [] toolName = "get_profile_reactions" -> getProfileReactions
      [] toolName = "get_company" -> getCompany
      [] toolName = "search_companies" -> searchCompanies
      [] toolName = "get_company_posts" -> getCompanyPosts
      [] toolName = "get_job" -> getJob
      [] toolName = "search_jobs" -> searchJobs
      [] toolName = "get_post" -> getPost
      [] toolName = "search_posts" -> searchPosts
      [] toolName = "get_post_comments" -> getPostComments
      [] toolName = "get_post_reactions" -> getPostReactions
      [] toolName = "get_group" -> getGroup
      [] toolName = "search_groups" -> searchGroups
      [] toolName = "search_geo_id" -> searchGeoId
      [] OTHER -> getProfile

Dispatch(toolName) ==
    CASE toolName = "get_profile" -> getProfile
      [] toolName = "search_profiles" -> searchProfiles
      [] toolName = "get_profile_posts" -> getProfilePosts
      [] toolName = "get_profile_comments" -> getProfileComments
      [] toolName = "get_profile_reactions" -> getProfileReactions
      [] toolName = "get_company" -> getCompany
      [] toolName = "search_companies" -> searchCompanies
      [] toolName = "get_company_posts" -> getCompanyPosts
      [] toolName = "get_job" -> getJob
      [] toolName = "search_jobs" -> searchJobs
      [] toolName = "get_post" -> getPost
      [] toolName = "search_posts" -> searchPosts
      [] toolName = "get_post_comments" -> getPostComments
      [] toolName = "get_post_reactions" -> getPostReactions
      [] toolName = "get_group" -> getGroup
      [] toolName = "search_groups" -> searchGroups
      [] toolName = "search_geo_id" -> searchGeoId
      [] OTHER -> NoMethod

\* a variant of the listing that leaves out the last tool
ToolListWithoutGeoId ==
    <<"get_profile", "search_profiles", "get_profile_posts", "get_profile_comments",
      "get_profile_reactions", "get_company", "search_companies", "get_company_posts",
      "get_job", "search_jobs", "get_post", "search_posts", "get_post_comments",
      "get_post_reactions", "get_group", "search_groups">>

\* the names listed by the ListToolsRequestSchema handler, in order
ToolList ==
    <<"get_profile", "search_profiles", "get_profile_posts", "get_profile_comments",
      "get_profile_reactions", "get_company", "search_companies", "get_company_posts",
      "get_job", "search_jobs", "get_post", "search_posts", "get_post_comments",
      "get_post_reactions", "get_group", "search_groups", "search_geo_id">>

ToolNames == {ToolList[i] : i \in 1..Len(ToolList)}

\* inputSchema.properties of a listed tool: the request keys plus save_dir and,
\* where the method reads it, max_items
inputSchemaProperties(toolName) ==
    LET m == Dispatch(toolName)
    IN  m.always \cup m.truthy \cup m.defined \cup {"save_dir"}
          \cup (IF m.defaultMax > 0 THEN {"max_items"} ELSE {})

---------------------------------------------------------------------------
(* Invocations: what the transport hands to the handler *)

BooleanProps == {"findEmail", "includeAboutProfile", "under10Applicants", "easyApply"}

\* the values an argument takes: every schema type with its falsy value
ArgValues(k) ==
    CASE k = "max_items" -> {Num(i) : i \in 0..MaxItemsArg}
      [] k = "page" -> {Num(0), Num(2)}
      [] k = "save_dir" -> {Str(""), Str("out")}
      [] k \in BooleanProps -> {Bool(FALSE), Bool(TRUE)}
      [] OTHER -> {Str(""), Str("v")}

AllArgValues ==
    {Num(i) : i \in 0..(MaxItemsArg + 2)}
        \cup {Str(""), Str("out"), Str("v"), Bool(FALSE), Bool(TRUE)}

\* argument objects with at most MaxArgs of the tool's properties supplied
ArgObjects(toolName) ==
    LET props == inputSchemaProperties(toolName)
        keysets == {S \in SUBSET props : Cardinality(S) <= MaxArgs}
    IN  UNION {{f \in [S -> AllArgValues] : \A k \in S : f[k] \in ArgValues(k)} :
                 S \in keysets}

\* request.params.arguments: absent, null, or an object
ArgumentValues(toolName) ==
    {[kind |-> "undefined", obj |-> EmptyObject], [kind |-> "null", obj |-> EmptyObject]}
        \cup {[kind |-> "object", obj |-> o] : o \in ArgObjects(toolName)}

CallNames == ToolNames \cup {"unknown_tool"}

---------------------------------------------------------------------------
(* Remote envelopes and failures *)

Null == [t |-> "null", s |-> "", n |-> 0]

RawItem(i) == [id |-> i]
Items(n) == [i \in 1..n |-> RawItem(i)]

PaginationBlocks ==
    {[pageNumber |-> 1, totalPages |-> 3, totalElements |-> 25, pageSize |-> 10],
     [pageNumber |-> 2, totalPages |-> 3, totalElements |-> 25, pageSize |-> 10,
      paginationToken |-> "tok"]}

ListEnvelopes ==
    LET els == {EmptyObject} \cup {("elements" :> Items(n)) : n \in 0..MaxRaw}
        pgs == {EmptyObject} \cup {("pagination" :> p) : p \in PaginationBlocks}
    IN  {e @@ p : e \in els, p \in pgs}

SingleEnvelopes == {EmptyObject, ("element" :> RawItem(1))}

RawProfiles ==
    {RawItem(1)} \cup
    {[id |-> 1, experience |-> Items(a), education |-> Items(b), skills |-> Items(x),
      certifications |-> Items(y)] :
        a \in 0..MaxSub, b \in 0..MaxSub, x \in 0..MaxSub, y \in 0..MaxSub}

ProfileEnvelopes == {EmptyObject} \cup {("element" :> r) : r \in RawProfiles}

\* response.data of a 2xx reply; isNull: the body is the JSON null
Bodies(shape) ==
    {[kind |-> "ok", isNull |-> TRUE, data |-> EmptyObject]} \cup
    {[kind |-> "ok", isNull |-> FALSE, data |-> d] :
        d \in CASE shape = "list" -> ListEnvelopes
                [] shape = "single" -> SingleEnvelopes
                [] shape = "profile" -> ProfileEnvelopes
                [] OTHER -> {}}

ErrorBodies ==
    {EmptyObject, ("message" :> Str("Not found")), ("message" :> Str("")),
     ("error" :> Str("Invalid API key")),
     ("message" :> Str("")) @@ ("error" :> Str("Invalid API key")),
     ("message" :> Str("Not found")) @@ ("error" :> Str("Invalid API key"))}

\* what apiClient.get rejects with
Failures ==
    {[kind |-> "fail", axios |-> TRUE, hasResponse |-> TRUE, status |-> st, data |-> d,
      message |-> IF st = 404 THEN "Request failed with status code 404"
                  ELSE "Request failed with status code 429"] :
        st \in {404, 429}, d \in ErrorBodies}
    \cup
    {[kind |-> "fail", axios |-> TRUE, hasResponse |-> FALSE, status |-> 0,
      data |-> EmptyObject, message |-> t] :
        t \in {"timeout of 30000ms exceeded", "Network Error"}}
    \cup
    {[kind |-> "fail", axios |-> FALSE, hasResponse |-> FALSE, status |-> 0,
      data |-> EmptyObject, message |-> "Invalid URL"]}

NoResponse == [kind |-> "none"]
NoResult == [kind |-> "none"]

---------------------------------------------------------------------------
(* makeRequest and the handler's catch *)

\* the catch of makeRequest: an axios error is re-thrown with status and text,
\* anything else is re-thrown as it is
makeRequestErrorNoStatus(err) ==
    IF err.axios
    THEN LET errorMessage ==
                 IF Truthy(Get(err.data, "message")) THEN Get(err.data, "message").s
                 ELSE IF Truthy(Get(err.data, "error")) THEN Get(err.data, "error").s
                 ELSE err.message
         IN  Error(<<"HarvestAPI error: ", errorMessage>>)
    ELSE Error(<<err.message>>)

makeRequestError(err) ==
    IF err.axios
    THEN LET statusCode == IF err.hasResponse /\ err.status # 0 THEN err.status ELSE 500
             errorMessage ==
                 IF Truthy(Get(err.data, "message")) THEN Get(err.data, "message").s
                 ELSE IF Truthy(Get(err.data, "error")) THEN Get(err.data, "error").s
                 ELSE err.message
         IN  Error(<<"HarvestAPI error (", ToString(statusCode), "): ", errorMessage>>)
    ELSE Error(<<err.message>>)

\* a variant of the catch that re-wraps every error, McpError included
handlerCatchWrapsAll(e) ==
    McpError(InternalError, <<"HarvestAPI error: ">> \o e.message)

\* the catch of the CallToolRequestSchema handler
handlerCatch(e) ==
    IF e.cls = "McpError" THEN e
    ELSE McpError(InternalError, <<"HarvestAPI error: ">> \o e.message)

Failed(e) ==
    LET w == handlerCatch(e)
    IN  [kind |-> "error", code |-> w.code, message |-> w.message]

---------------------------------------------------------------------------
(* Parameter assembly and the argument rules of the tool methods *)

\* the values the input schemas declare for the enumerated properties
enum(k) ==
    CASE k = "postedLimit" -> {"24h", "week", "month"}
      [] k = "sortBy" -> {"relevance", "date"}
      [] k = "workplaceType" -> {"office", "hybrid", "remote"}
      [] k = "employmentType" ->
           {"full-time", "part-time", "contract", "temporary", "volunteer", "internship"}
      [] k = "experienceLevel" ->
           {"internship", "entry", "associate", "mid-senior", "director", "executive"}
      [] OTHER -> {}

EnumeratedParams ==
    {"postedLimit", "sortBy", "workplaceType", "employmentType", "experienceLevel"}

\* a variant of the assembly that leaves out an enumerated parameter whose
\* value is not one the schema declares
BuildParamsDeclaredOnly(m, a) ==
    LET keys == m.always
                  \cup {k \in m.truthy : Truthy(Get(a, k))}
                  \cup {k \in m.defined : Get(a, k) # Undefined}
        kept == {k \in keys : k \in EnumeratedParams => Get(a, k).s \in enum(k)}
    IN  [k \in kept |-> Get(a, k)]

\* the params object a method builds from args
BuildParams(m, a) ==
    LET keys == m.always
                  \cup {k \in m.truthy : Truthy(Get(a, k))}
                  \cup {k \in m.defined : Get(a, k) # Undefined}
    IN  [k \in keys |-> Get(a, k)]

\* a variant of the rule check that looks at the first key of the rule only
RuleSatisfiedFirstKeyOnly(m, params) ==
    \/ m.rule = <<>>
    \/ Truthy(Get(params, m.rule[1]))

\* if (!params.a && !params.b && !params.c) throw ...
RuleSatisfied(m, params) ==
    \/ m.rule = <<>>
    \/ \E i \in 1..Len(m.rule) : Truthy(Get(params, m.rule[i]))

\* a variant of the arguments check that lets an absent argument object through
MissingArgumentsNullOnly(a) == a.kind = "null"

\* if (!args)
MissingArguments(a) == a.kind # "object"

\* the headers makeRequest adds to the GET
requestHeaders == IF apiKey # "" THEN ("X-API-Key" :> apiKey) ELSE EmptyObject

\* The handler from its entry to the await of apiClient.get: either a value is
\* thrown, or one request is handed to the HTTP client.
Entry(toolName, a) ==
    IF MissingArguments(a)
    THEN [thrown |-> TRUE, error |-> McpError(InvalidParams, <<"Missing arguments">>)]
    ELSE LET m == Dispatch(toolName)
         IN  IF m.shape = "none"
             THEN [thrown |-> TRUE,
                   error |-> McpError(MethodNotFound, <<"Unknown tool: ", toolName>>)]
             ELSE LET params == BuildParams(m, a.obj)
                  IN  IF ~RuleSatisfied(m, params)
                      THEN [thrown |-> TRUE, error |-> Error(m.ruleMsg)]
                      ELSE [thrown |-> FALSE,
                            request |-> [endpoint |-> m.endpoint, params |-> params,
                                         headers |-> requestHeaders]]

---------------------------------------------------------------------------
(* Cleaning and bounding *)

\* a DataCleaners projection of one raw entity (null when the entity is absent)
Clean(cleaner, raw) == [cleaner |-> cleaner, id |-> raw.id]

CleanAll(cleaner, raws) == [i \in 1..Len(raws) |-> Clean(cleaner, raws[i])]

\* (raw.k || [])
ArrayOrEmpty(obj, k) == IF k \in DOMAIN obj THEN obj[k] ELSE <<>>

\* a variant of the default in which every method falls back to 10
maxItemsOfSharedDefault(a, d) ==
    IF Truthy(Get(a, "max_items")) THEN Get(a, "max_items").n ELSE 10

\* args.max_items || d
maxItemsOf(a, d) ==
    IF Truthy(Get(a, "max_items")) THEN Get(a, "max_items").n ELSE d

cleanProfile(raw) ==
    [cleaner |-> "cleanProfile", id |-> raw.id,
     experience |-> CleanAll("experience", ArrayOrEmpty(raw, "experience")),
     education |-> CleanAll("education", ArrayOrEmpty(raw, "education")),
     skills |-> CleanAll("skills", ArrayOrEmpty(raw, "skills")),
     certifications |-> CleanAll("certifications", ArrayOrEmpty(raw, "certifications"))]

\* the cleaned data a method hands to formatResponse
Shape(m, a, data) ==
    CASE m.shape = "list" ->
           CleanAll(m.cleaner, slice(ArrayOrEmpty(data, "elements"),
                                     maxItemsOf(a, m.defaultMax)))
      [] m.shape = "single" ->
           IF "element" \in DOMAIN data THEN Clean(m.cleaner, data["element"]) ELSE Null
      [] m.shape = "profile" ->
           IF "element" \in DOMAIN data
           THEN LET cleaned == cleanProfile(data["element"])
                    maxItems == maxItemsOf(a, m.defaultMax)
                IN  [cleaned EXCEPT !.experience = slice(@, maxItems),
                                    !.education = slice(@, maxItems),
                                    !.skills = slice(@, maxItems),
                                    !.certifications = slice(@, maxItems)]
           ELSE Null

---------------------------------------------------------------------------
(* formatResponse and saveData *)

Clock == 0..MaxClock
FsFaults == {"none", "mkdir", "write"}

JSONstringify(v) == <<"json", v>>

encode(v) == <<"toon", v>>

\* the output object: data, and the pagination summary when a block was given
Output(cleaned, pagination) ==
    ("data" :> cleaned) @@
    (IF "pagination" \in DOMAIN pagination
     THEN ("pagination" :>
             [page |-> pagination["pagination"].pageNumber,
              totalPages |-> pagination["pagination"].totalPages,
              totalElements |-> pagination["pagination"].totalElements])
     ELSE EmptyObject)

\* a variant of saveData whose file name leaves out the tool name
saveDataPlainName(data, dir, toolName, fault, ts) ==
    IF dir \notin dirs /\ fault = "mkdir"
    THEN [dirs |-> dirs, files |-> files,
          ret |-> <<"Error saving: ", "EACCES: permission denied, mkdir">>]
    ELSE IF fault = "write"
    THEN [dirs |-> dirs \cup {dir}, files |-> files,
          ret |-> <<"Error saving: ", "EACCES: permission denied, open">>]
    ELSE LET filepath == <<dir, "/", "result", "_", ToString(ts), ".json">>
         IN  [dirs |-> dirs \cup {dir},
              files |-> (filepath :> JSONstringify(data)) @@ files,
              ret |-> filepath]

\* saveData: the file system after the call and the string it returns
saveData(data, dir, toolName, fault, ts) ==
    IF dir \notin dirs /\ fault = "mkdir"
    THEN [dirs |-> dirs, files |-> files,
          ret |-> <<"Error saving: ", "EACCES: permission denied, mkdir">>]
    ELSE IF fault = "write"
    THEN [dirs |-> dirs \cup {dir}, files |-> files,
          ret |-> <<"Error saving: ", "EACCES: permission denied, open">>]
    ELSE LET filepath == <<dir, "/", toolName, "_", ToString(ts), ".json">>
         IN  [dirs |-> dirs \cup {dir},
              files |-> (filepath :> JSONstringify(data)) @@ files,
              ret |-> filepath]

\* a variant of formatResponse in which a failed save is thrown to the handler
formatResponseThrowsSaveError(cleaned, saveDir, toolName, pagination, fault, ts) ==
    LET output == Output(cleaned, pagination)
        saved == IF Truthy(saveDir) /\ toolName # ""
                 THEN saveData(output, saveDir.s, toolName, fault, ts)
                 ELSE [dirs |-> dirs, files |-> files, ret |-> <<>>]
        note == IF saved.ret # <<>>
                THEN <<"\n\n[Cleaned data saved to: ">> \o saved.ret \o <<"]">>
                ELSE <<>>
    IN  [dirs |-> saved.dirs, files |-> saved.files,
         result |-> IF Contains(saved.ret, "Error saving: ")
                    THEN Failed(Error(saved.ret))
                    ELSE [kind |-> "ok",
                          content |-> <<[type |-> "text",
                                         text |-> [toon |-> encode(output),
                                                   note |-> note]]>>]]

\* a variant of formatResponse that encodes the saved path with the data
formatResponseEncodesPath(cleaned, saveDir, toolName, pagination, fault, ts) ==
    LET output == Output(cleaned, pagination)
        saved == IF Truthy(saveDir) /\ toolName # ""
                 THEN saveData(output, saveDir.s, toolName, fault, ts)
                 ELSE [dirs |-> dirs, files |-> files, ret |-> <<>>]
        note == IF saved.ret # <<>>
                THEN <<"\n\n[Cleaned data saved to: ">> \o saved.ret \o <<"]">>
                ELSE <<>>
    IN  [dirs |-> saved.dirs, files |-> saved.files,
         result |-> [kind |-> "ok",
                     content |-> <<[type |-> "text",
                                    text |-> [toon |-> encode(output @@
                                                              ("savedTo" :> saved.ret)),
                                              note |-> note]]>>]]

\* formatResponse: the file system after the call and the CallToolResult
formatResponse(cleaned, saveDir, toolName, pagination, fault, ts) ==
    LET output == Output(cleaned, pagination)
        saved == IF Truthy(saveDir) /\ toolName # ""
                 THEN saveData(output, saveDir.s, toolName, fault, ts)
                 ELSE [dirs |-> dirs, files |-> files, ret |-> <<>>]
        note == IF saved.ret # <<>>
                THEN <<"\n\n[Cleaned data saved to: ">> \o saved.ret \o <<"]">>
                ELSE <<>>
    IN  [dirs |-> saved.dirs, files |-> saved.files,
         result |-> [kind |-> "ok",
                     content |-> <<[type |-> "text",
                                    text |-> [toon |-> encode(output), note |-> note]]>>]]

---------------------------------------------------------------------------
(* The actions *)

\* the server after its constructor: no call is in progress
Constructed ==
    /\ pc = [c \in CallIds |-> "idle"]
    /\ name = [c \in CallIds |-> ""]
    /\ args = [c \in CallIds |-> [kind |-> "undefined", obj |-> EmptyObject]]
    /\ requests = [c \in CallIds |-> <<>>]
    /\ response = [c \in CallIds |-> NoResponse]
    /\ result = [c \in CallIds |-> NoResult]
    /\ apiClient = [baseURL |-> "https://api.harvest-api.com/linkedin", timeout |-> 30000]
    /\ files = EmptyObject

Init ==
    /\ Constructed
    /\ apiKey = "key"
    /\ dirs \in {{}, {"out"}}

\* a variant of the entry that creates the save directory before the request
EnterCreatesSaveDir(c, n, a) ==
    /\ pc[c] = "idle"
    /\ LET e == Entry(n, a)
       IN  /\ name' = [name EXCEPT ![c] = n]
           /\ args' = [args EXCEPT ![c] = a]
           /\ dirs' = IF a.kind = "object" /\ Truthy(Get(a.obj, "save_dir"))
                      THEN dirs \cup {Get(a.obj, "save_dir").s}
                      ELSE dirs
           /\ IF e.thrown
              THEN /\ result' = [result EXCEPT ![c] = Failed(e.error)]
                   /\ pc' = [pc EXCEPT ![c] = "done"]
                   /\ requests' = requests
              ELSE /\ requests' = [requests EXCEPT ![c] = Append(@, e.request)]
                   /\ pc' = [pc EXCEPT ![c] = "waiting"]
                   /\ result' = result
    /\ UNCHANGED <<response, files, apiKey, apiClient>>

\* The handler, entered with (n, a), runs to its first await.
Enter(c, n, a) ==
    /\ pc[c] = "idle"
    /\ LET e == Entry(n, a)
       IN  /\ name' = [name EXCEPT ![c] = n]
           /\ args' = [args EXCEPT ![c] = a]
           /\ IF e.thrown
              THEN /\ result' = [result EXCEPT ![c] = Failed(e.error)]
                   /\ pc' = [pc EXCEPT ![c] = "done"]
                   /\ requests' = requests
              ELSE /\ requests' = [requests EXCEPT ![c] = Append(@, e.request)]
                   /\ pc' = [pc EXCEPT ![c] = "waiting"]
                   /\ result' = result
    /\ UNCHANGED <<response, dirs, files, apiKey, apiClient>>

\* the pagination option a method hands to formatResponse
paginationOption(m, data) ==
    IF m.pagination /\ "pagination" \in DOMAIN data
    THEN ("pagination" :> data["pagination"])
    ELSE EmptyObject

\* a variant of the continuation that reads the arguments of the call entered
\* last instead of its own
ResolveWithLatestArgs(c, body, fault, ts) ==
    /\ pc[c] = "waiting"
    /\ LET m == Dispatch(name[c])
           latest == CHOOSE d \in CallIds :
                        /\ args[d].kind = "object"
                        /\ \A x \in CallIds : args[x].kind = "object" => x <= d
           a == args[latest].obj
       IN  /\ response' = [response EXCEPT ![c] = body]
           /\ IF body.isNull
              THEN /\ result' = [result EXCEPT ![c] =
                        Failed(Error(<<"Cannot read properties of null">>))]
                   /\ UNCHANGED <<dirs, files>>
              ELSE LET r == formatResponse(Shape(m, a, body.data), Get(a, "save_dir"),
                                           m.tool, paginationOption(m, body.data),
                                           fault, ts)
                   IN  /\ result' = [result EXCEPT ![c] = r.result]
                       /\ dirs' = r.dirs
                       /\ files' = r.files
    /\ pc' = [pc EXCEPT ![c] = "done"]
    /\ UNCHANGED <<name, args, requests, apiKey, apiClient>>

\* The GET resolves with body: the method cleans, bounds, formats and, when a
\* directory was given, saves (fault: what the file system refuses; ts: the
\* clock reading of saveData).
Resolve(c, body, fault, ts) ==
    /\ pc[c] = "waiting"
    /\ LET m == Dispatch(name[c])
           a == args[c].obj
       IN  /\ response' = [response EXCEPT ![c] = body]
           /\ IF body.isNull
              THEN /\ result' = [result EXCEPT ![c] =
                        Failed(Error(<<"Cannot read properties of null">>))]
                   /\ UNCHANGED <<dirs, files>>
              ELSE LET r == formatResponse(Shape(m, a, body.data), Get(a, "save_dir"),
                                           m.tool, paginationOption(m, body.data),
                                           fault, ts)
                   IN  /\ result' = [result EXCEPT ![c] = r.result]
                       /\ dirs' = r.dirs
                       /\ files' = r.files
    /\ pc' = [pc EXCEPT ![c] = "done"]
    /\ UNCHANGED <<name, args, requests, apiKey, apiClient>>

\* a variant of the rejection that records the failure and leaves the call
\* suspended
RejectLeavesCallPending(c, err) ==
    /\ pc[c] = "waiting"
    /\ response' = [response EXCEPT ![c] = err]
    /\ UNCHANGED <<pc, result, name, args, requests, dirs, files, apiKey, apiClient>>

\* The GET rejects with err: makeRequest re-throws and the handler's catch wraps.
Reject(c, err) ==
    /\ pc[c] = "waiting"
    /\ response' = [response EXCEPT ![c] = err]
    /\ result' = [result EXCEPT ![c] = Failed(makeRequestError(err))]
    /\ pc' = [pc EXCEPT ![c] = "done"]
    /\ UNCHANGED <<name, args, requests, dirs, files, apiKey, apiClient>>

\* a variant of the handler that hands the request to the HTTP client before
\* the argument rule is looked at
CallToolRequestFirst(c) ==
    /\ pc[c] = "idle"
    /\ \E n \in CallNames : \E a \in ArgumentValues(n) :
         LET e == Entry(n, a)
             m == Dispatch(n)
             early == ~MissingArguments(a) /\ m.shape # "none"
             req == [endpoint |-> m.endpoint, params |-> BuildParams(m, a.obj),
                     headers |-> requestHeaders]
         IN  /\ name' = [name EXCEPT ![c] = n]
             /\ args' = [args EXCEPT ![c] = a]
             /\ requests' = [requests EXCEPT ![c] = IF early THEN <<req>> ELSE <<>>]
             /\ IF e.thrown
                THEN /\ result' = [result EXCEPT ![c] = Failed(e.error)]
                     /\ pc' = [pc EXCEPT ![c] = "done"]
                ELSE /\ result' = result
                     /\ pc' = [pc EXCEPT ![c] = "waiting"]
    /\ UNCHANGED <<response, dirs, files, apiKey, apiClient>>

\* A tool call arrives: any name, any argument value.
CallTool(c) ==
    /\ pc[c] = "idle"
    /\ \E n \in CallNames : \E a \in ArgumentValues(n) : Enter(c, n, a)

\* The GET resolves with any 2xx body of the method's envelope shape.
RemoteSuccess(c) ==
    /\ pc[c] = "waiting"
    /\ \E body \in Bodies(Dispatch(name[c]).shape) :
         \E fault \in FsFaults : \E ts \in Clock : Resolve(c, body, fault, ts)

\* a variant of the failure path that issues the request a second time
RemoteFailureRetry(c) ==
    /\ pc[c] = "waiting"
    /\ \E err \in Failures :
         /\ response' = [response EXCEPT ![c] = err]
         /\ IF Len(requests[c]) < 2
            THEN /\ requests' = [requests EXCEPT ![c] = Append(@, @[1])]
                 /\ UNCHANGED <<pc, result>>
            ELSE /\ result' = [result EXCEPT ![c] = Failed(makeRequestError(err))]
                 /\ pc' = [pc EXCEPT ![c] = "done"]
                 /\ UNCHANGED requests
    /\ UNCHANGED <<name, args, dirs, files, apiKey, apiClient>>

\* The GET rejects with any failure of the HTTP client.
RemoteFailure(c) ==
    /\ pc[c] = "waiting"
    /\ \E err \in Failures : Reject(c, err)

\* One call, served in slot 1: calls share no variable but the file system, so
\* the per-call properties are checked on a single call with the full range of
\* names, arguments and remote outcomes.
Next ==
    \/ CallTool(1)
    \/ RemoteSuccess(1)
    \/ RemoteFailure(1)

Spec == Init /\ [][Next]_vars

---------------------------------------------------------------------------
(* Vocabulary of the properties *)

Started(c) == pc[c] # "idle"
Done(c) == pc[c] = "done"
IsObject(c) == args[c].kind = "object"
Arg(c, k) == Get(args[c].obj, k)
SuppliedKeys(c) == DOMAIN args[c].obj
FailedWith(c, code) == Done(c) /\ result[c].kind = "error" /\ result[c].code = code

\* the operations with an "at least one of" rule and the fields of each rule
AtLeastOneOfTools ==
    {"get_profile", "get_profile_posts", "get_profile_comments", "get_profile_reactions",
     "get_company", "get_company_posts", "get_job", "get_group"}

RuleFields(toolName) ==
    CASE toolName = "get_profile" -> {"url", "publicIdentifier", "profileId"}
      [] toolName = "get_profile_posts" -> {"profile", "profileId", "profilePublicIdentifier"}
      [] toolName = "get_profile_comments" -> {"profile", "profileId"}
      [] toolName = "get_profile_reactions" -> {"profile", "profileId"}
      [] toolName = "get_company" -> {"url", "universalName", "search"}
      [] toolName = "get_company_posts" -> {"company", "companyId", "companyUniversalName"}
      [] toolName = "get_job" -> {"jobId", "url"}
      [] toolName = "get_group" -> {"url", "groupId"}
      [] OTHER -> {}

SearchTools ==
    {"search_profiles", "search_companies", "search_posts", "search_groups",
     "search_geo_id"}

\* the error of a failed "at least one of" rule
IsRuleError(r) == r.kind = "error" /\ Contains(r.message, "At least one of ")

\* an error of the validation or of the catalog lookup
IsValidationOrCatalogError(r) ==
    /\ r.kind = "error"
    /\ \/ r.code \in {InvalidParams, MethodNotFound}
       \/ Contains(r.message, "At least one of ")
       \/ Contains(r.message, " is required")

\* the argument object is present, the name is in the catalog, and the
\* operation's "at least one of" rule, if it has one, has a truthy field
PassedValidation(c) ==
    /\ IsObject(c)
    /\ name[c] \in ToolNames
    /\ name[c] \in AtLeastOneOfTools =>
         \E k \in RuleFields(name[c]) : Truthy(Arg(c, k))

\* the output object encoded in a successful reply
ReplyOutput(c) == result[c].content[1].text.toon[2]

---------------------------------------------------------------------------
(* C1 *)

\* C1: for each operation with an "at least one of" rule, a call in which none
\* of the rule's fields is present fails with the invalid-params code and a
\* message naming every field of the rule.
C1_NoRuleFieldFailsInvalidParams ==
    \A c \in CallIds :
        (/\ Started(c) /\ IsObject(c)
         /\ name[c] \in AtLeastOneOfTools
         /\ SuppliedKeys(c) \cap RuleFields(name[c]) = {})
        => /\ FailedWith(c, InvalidParams)
           /\ \A k \in RuleFields(name[c]) : Contains(result[c].message, k)

---------------------------------------------------------------------------
(* C2 *)

\* C2 as stated: a call that supplies exactly one field of the rule passes
\* validation and proceeds to the remote request, and the rule fails only when
\* none of the rule's fields is supplied.
C2_ExactlyOneSuppliedPasses ==
    \A c \in CallIds :
        (Started(c) /\ IsObject(c) /\ name[c] \in AtLeastOneOfTools)
        => /\ Cardinality(SuppliedKeys(c) \cap RuleFields(name[c])) = 1
                => (requests[c] # <<>> /\ ~IsRuleError(result[c]))
           /\ IsRuleError(result[c]) => SuppliedKeys(c) \cap RuleFields(name[c]) = {}

\* C2 amended: a call that supplies exactly one field of the rule with a truthy
\* (non-empty) value passes validation and proceeds to one remote request to the
\* method's endpoint; the rule fails exactly when no field of the rule is
\* supplied with a truthy value.
C2_ExactlyOneTruthyPasses ==
    \A c \in CallIds :
        (Started(c) /\ IsObject(c) /\ name[c] \in AtLeastOneOfTools)
        => LET truthy == {k \in RuleFields(name[c]) : Truthy(Arg(c, k))}
           IN  /\ truthy # {}
                    => /\ Len(requests[c]) = 1
                       /\ requests[c][1].endpoint = Dispatch(name[c]).endpoint
                       /\ \A k \in truthy : Get(requests[c][1].params, k) = Arg(c, k)
                       /\ ~IsRuleError(result[c])
               /\ truthy = {}
                    => /\ requests[c] = <<>>
                       /\ Done(c) /\ IsRuleError(result[c])

C2_Witness ==
    \E c \in CallIds :
        /\ pc[c] = "waiting" /\ IsObject(c)
        /\ name[c] = "get_company_posts"
        /\ SuppliedKeys(c) = {"companyUniversalName"}
        /\ Truthy(Arg(c, "companyUniversalName"))
        /\ Len(requests[c]) = 1

---------------------------------------------------------------------------
(* C3 *)

\* C3: for every search-type operation, a call whose search text is absent or
\* empty fails validation and no remote request is issued.
C3_EmptySearchFailsValidation ==
    \A c \in CallIds :
        (Started(c) /\ name[c] \in SearchTools /\ ~Truthy(Arg(c, "search")))
        => /\ Done(c) /\ result[c].kind = "error"
           /\ requests[c] = <<>>

---------------------------------------------------------------------------
(* C4 *)

\* C4: get_post without url, and get_post_comments or get_post_reactions without
\* post, fail validation before any HTTP call is made, with a message naming the
\* missing field as required.
C4_MissingPostReferenceFailsValidation ==
    \A c \in CallIds :
        LET k == IF name[c] = "get_post" THEN "url" ELSE "post"
        IN  (/\ Started(c) /\ IsObject(c)
             /\ name[c] \in {"get_post", "get_post_comments", "get_post_reactions"}
             /\ k \notin SuppliedKeys(c))
            => /\ Done(c) /\ result[c].kind = "error"
               /\ requests[c] = <<>>
               /\ Contains(result[c].message, k)

---------------------------------------------------------------------------
(* C5 *)

\* C5 as stated: a tool call whose name is not one of the catalog's tool names
\* fails with the method-not-found code, and no remote request is issued for it.
C5_UnknownToolIsMethodNotFound ==
    \A c \in CallIds :
        (Started(c) /\ name[c] \notin ToolNames)
        => (FailedWith(c, MethodNotFound) /\ requests[c] = <<>>)

\* C5 amended: a tool call whose name is not in the catalog fails with the
\* method-not-found code when its argument object is present, and with the
\* invalid-params code ("Missing arguments") when the argument object is absent
\* or null, because the arguments check comes first; in both cases no remote
\* request is issued.
C5_UnknownToolFailsByArguments ==
    \A c \in CallIds :
        (Started(c) /\ name[c] \notin ToolNames)
        => /\ requests[c] = <<>>
           /\ IsObject(c) =>
                /\ FailedWith(c, MethodNotFound)
                /\ result[c].message = <<"Unknown tool: ", name[c]>>
           /\ ~IsObject(c) =>
                /\ FailedWith(c, InvalidParams)
                /\ result[c].message = <<"Missing arguments">>

C5_Witness ==
    \E c \in CallIds :
        /\ name[c] = "unknown_tool" /\ IsObject(c)
        /\ FailedWith(c, MethodNotFound)
        /\ requests[c] = <<>>

---------------------------------------------------------------------------
(* C6 *)

\* C6: a tool call whose argument object is absent or null fails with the
\* invalid-params code ("Missing arguments") for every tool name, and no remote
\* request is issued.
C6_MissingArgumentsIsInvalidParams ==
    \A c \in CallIds :
        (Started(c) /\ ~IsObject(c))
        => /\ FailedWith(c, InvalidParams)
           /\ result[c].message = <<"Missing arguments">>
           /\ requests[c] = <<>>

C6_Witness ==
    \E c \in CallIds :
        /\ name[c] = "search_jobs" /\ args[c].kind = "undefined"
        /\ FailedWith(c, InvalidParams)

---------------------------------------------------------------------------
(* C7 *)

\* C7: whenever a tool call has ended in a validation error or an
\* unknown-operation error, no remote request was issued for that call.
C7_ValidationErrorsPrecedeRequests ==
    \A c \in CallIds :
        IsValidationOrCatalogError(result[c]) => requests[c] = <<>>

C7_Witness ==
    \E c \in CallIds :
        /\ Done(c) /\ name[c] = "get_job" /\ IsObject(c)
        /\ IsRuleError(result[c])
        /\ requests[c] = <<>>

---------------------------------------------------------------------------
(* C8 *)

\* C8: every dispatch that passes validation invokes the remote client exactly
\* once, whether the remote call succeeds or fails; a failed remote call is not
\* retried and its error is what the caller gets.
C8_ExactlyOneRequestNoRetry ==
    \A c \in CallIds :
        /\ (Started(c) /\ PassedValidation(c)) => Len(requests[c]) = 1
        /\ response[c].kind = "fail"
             => /\ Done(c) /\ result[c].kind = "error"
                /\ Len(requests[c]) = 1
        /\ response[c].kind = "ok" => Len(requests[c]) = 1

C8_Witness ==
    \E c \in CallIds :
        /\ Done(c) /\ PassedValidation(c)
        /\ response[c].kind = "fail" /\ ~response[c].hasResponse
        /\ result[c].kind = "error"
        /\ Len(requests[c]) = 1

---------------------------------------------------------------------------
(* C9 *)

\* C9: when the remote call fails, the tool call fails with the internal-error
\* code and a message that contains the remote status code and the remote
\* message or error text when the response carries one, or the raw transport
\* error text otherwise.
C9_RemoteFailureIsInternalError ==
    \A c \in CallIds :
        response[c].kind = "fail"
        => LET err == response[c]
               msg == result[c].message
               carried == {Get(err.data, k).s :
                             k \in {k \in {"message", "error"} : Truthy(Get(err.data, k))}}
           IN  /\ FailedWith(c, InternalError)
               /\ err.hasResponse => Contains(msg, ToString(err.status))
               /\ (err.hasResponse /\ carried # {})
                    => \E t \in carried : Contains(msg, t)
               /\ (~err.hasResponse \/ carried = {}) => Contains(msg, err.message)

C9_Witness ==
    \E c \in CallIds :
        /\ response[c].kind = "fail" /\ response[c].hasResponse
        /\ response[c].status = 404
        /\ Truthy(Get(response[c].data, "message"))
        /\ FailedWith(c, InternalError)
        /\ Contains(result[c].message, "404")
        /\ Contains(result[c].message, "Not found")

---------------------------------------------------------------------------
(* C10 *)

\* the first min(N, M) cleaned items are the first min(N, M) raw items, in order
IsBoundedPrefix(shaped, raw, M) ==
    /\ Len(shaped) = Min(Len(raw), M)
    /\ \A i \in 1..Len(shaped) : shaped[i].id = raw[i].id

\* C10: for every listing operation and for each of get_profile's sub-lists,
\* shaping N raw items with a requested max_items of M yields exactly the first
\* min(N, M) raw items in their original order, for all N >= 0 and M >= 0, each
\* profile sub-list being bounded independently.
C10_BoundedToMinOfRawAndMax ==
    \A c \in CallIds :
        (/\ Done(c) /\ result[c].kind = "ok"
         /\ "max_items" \in SuppliedKeys(c))
        => LET M == Arg(c, "max_items").n
               raw == response[c].data
               shaped == ReplyOutput(c)["data"]
           IN  /\ Dispatch(name[c]).shape = "list"
                    => IsBoundedPrefix(shaped, ArrayOrEmpty(raw, "elements"), M)
               /\ (Dispatch(name[c]).shape = "profile" /\ "element" \in DOMAIN raw)
                    => /\ IsBoundedPrefix(shaped.experience,
                                          ArrayOrEmpty(raw["element"], "experience"), M)
                       /\ IsBoundedPrefix(shaped.education,
                                          ArrayOrEmpty(raw["element"], "education"), M)
                       /\ IsBoundedPrefix(shaped.skills,
                                          ArrayOrEmpty(raw["element"], "skills"), M)
                       /\ IsBoundedPrefix(shaped.certifications,
                                          ArrayOrEmpty(raw["element"], "certifications"), M)

---------------------------------------------------------------------------
(* Shaping of long envelopes.  The same handler, served with envelopes long *)
(* enough to exceed the default maxima, and with arguments that name the    *)
(* entity and, optionally, max_items.                                       *)

\* argument objects over the method's first rule field (or its unconditional
\* field) and max_items
LongArgs(toolName) ==
    LET m == Dispatch(toolName)
        key == IF m.rule # <<>> THEN {m.rule[1]} ELSE m.always
    IN  {[kind |-> "object", obj |-> o] :
           o \in {o \in ArgObjects(toolName) :
                    /\ DOMAIN o \subseteq key \cup {"max_items"}
                    /\ \A k \in DOMAIN o \cap key : Truthy(o[k])}}

\* profiles whose sub-lists take two lengths, each up to MaxSubLong
LongProfiles ==
    {[id |-> 1, experience |-> Items(a), education |-> Items(b), skills |-> Items(b),
      certifications |-> Items(a)] :
        a \in 0..MaxSubLong, b \in 0..MaxSubLong}

LongBodies(shape) ==
    CASE shape = "list" ->
           {[kind |-> "ok", isNull |-> FALSE, data |-> d] :
              d \in {EmptyObject} \cup {("elements" :> Items(n)) : n \in 0..MaxRawLong}}
      [] shape = "profile" ->
           {[kind |-> "ok", isNull |-> FALSE, data |-> ("element" :> r)] :
              r \in LongProfiles}
      [] OTHER -> Bodies(shape)

LongCallTool(c) ==
    /\ pc[c] = "idle"
    /\ \E n \in ToolNames : \E a \in LongArgs(n) : Enter(c, n, a)

LongRemoteSuccess(c) ==
    /\ pc[c] = "waiting"
    /\ \E body \in LongBodies(Dispatch(name[c]).shape) : Resolve(c, body, "none", 0)

ShapeNext ==
    \/ LongCallTool(1)
    \/ LongRemoteSuccess(1)

ShapeSpec == Init /\ [][ShapeNext]_vars

---------------------------------------------------------------------------
(* C11 *)

\* C11: when max_items is not supplied, get_profile truncates each of its
\* sub-lists to the first 5 entries and every search or listing operation
\* truncates its result array to the first 10 entries, in the order of the
\* remote reply.
C11_DefaultMaxima ==
    \A c \in CallIds :
        (/\ Done(c) /\ result[c].kind = "ok"
         /\ "max_items" \notin SuppliedKeys(c))
        => LET raw == response[c].data
               shaped == ReplyOutput(c)["data"]
           IN  /\ Dispatch(name[c]).shape = "list"
                    => IsBoundedPrefix(shaped, ArrayOrEmpty(raw, "elements"), 10)
               /\ (Dispatch(name[c]).shape = "profile" /\ "element" \in DOMAIN raw)
                    => /\ IsBoundedPrefix(shaped.experience,
                                          ArrayOrEmpty(raw["element"], "experience"), 5)
                       /\ IsBoundedPrefix(shaped.education,
                                          ArrayOrEmpty(raw["element"], "education"), 5)
                       /\ IsBoundedPrefix(shaped.skills,
                                          ArrayOrEmpty(raw["element"], "skills"), 5)
                       /\ IsBoundedPrefix(shaped.certifications,
                                          ArrayOrEmpty(raw["element"], "certifications"), 5)

C11_Witness ==
    \E c \in CallIds :
        /\ Done(c) /\ result[c].kind = "ok"
        /\ name[c] = "search_jobs" /\ SuppliedKeys(c) = {}
        /\ "elements" \in DOMAIN response[c].data
        /\ Len(response[c].data["elements"]) = 12
        /\ Len(ReplyOutput(c)["data"]) = 10
        /\ ReplyOutput(c)["data"][10].id = response[c].data["elements"][10].id

---------------------------------------------------------------------------
(* C12 *)

\* the operations served by a collection endpoint (data.elements)
CollectionTools == {n \in ToolNames : Dispatch(n).shape = "list"}

\* C12: for every collection operation, the reply carries a pagination summary
\* exactly when the raw envelope carries a pagination block; the summary then
\* has page = pageNumber, totalPages and totalElements of the envelope and
\* nothing else (in particular not the pagination token).
C12_PaginationSummaryIffBlock ==
    \A c \in CallIds :
        (Done(c) /\ result[c].kind = "ok" /\ name[c] \in CollectionTools)
        => LET raw == response[c].data
               out == ReplyOutput(c)
           IN  /\ ("pagination" \in DOMAIN out) <=> ("pagination" \in DOMAIN raw)
               /\ "pagination" \in DOMAIN out
                    => out["pagination"] =
                         [page |-> raw["pagination"].pageNumber,
                          totalPages |-> raw["pagination"].totalPages,
                          totalElements |-> raw["pagination"].totalElements]

---------------------------------------------------------------------------
(* C13 *)

\* the call was given a directory, the remote call returned a body, and no
\* file was written
SaveFailed(c) ==
    /\ Done(c) /\ IsObject(c) /\ Truthy(Arg(c, "save_dir"))
    /\ response[c].kind = "ok" /\ ~response[c].isNull
    /\ files = EmptyObject

\* the reply of the same call when no directory is given
ReplyWithoutSaveDir(c) ==
    LET m == Dispatch(name[c])
        data == response[c].data
    IN  formatResponse(Shape(m, args[c].obj, data), Undefined, m.tool,
                       paginationOption(m, data), "none", 0).result

\* C13: a failure to create the save directory or to write the file never
\* makes the tool call fail: the call returns a successful reply whose encoded
\* payload is the payload returned when no directory is given, followed by a
\* note that reports the save error.
C13_SaveFailureDegradesToNote ==
    \A c \in CallIds :
        SaveFailed(c)
        => /\ result[c].kind = "ok"
           /\ result[c].content[1].text.toon = ReplyWithoutSaveDir(c).content[1].text.toon
           /\ Contains(result[c].content[1].text.note, "Error saving: ")
           /\ ReplyWithoutSaveDir(c).content[1].text.note = <<>>

C13_Witness ==
    \E c \in CallIds :
        /\ SaveFailed(c) /\ "out" \notin dirs
        /\ name[c] = "search_jobs"
        /\ result[c].kind = "ok"
        /\ Contains(result[c].content[1].text.note, "EACCES: permission denied, mkdir")
        /\ Len(ReplyOutput(c)["data"]) > 0

---------------------------------------------------------------------------
(* C14 *)

\* the path a reply reports as saved (<<>> when it reports none)
SavedPath(r) ==
    IF r.kind = "ok" /\ r.content[1].text.note # <<>>
          /\ ~Contains(r.content[1].text.note, "Error saving: ")
    THEN SubSeq(r.content[1].text.note, 2, Len(r.content[1].text.note) - 1)
    ELSE <<>>

\* f is a file of directory dir named after toolName and a clock reading
IsResultFileName(f, dir, toolName) ==
    \E ts \in Clock : f = <<dir, "/", toolName, "_", ToString(ts), ".json">>

\* C14 as stated: a file is written if and only if the caller supplies a
\* destination directory and the remote call succeeded; the document written is
\* the output object the reply encodes, and the file name contains the
\* operation name and a timestamp.
C14_FileWrittenIffDirAndSuccess ==
    \A c \in CallIds :
        Done(c)
        => /\ (files # EmptyObject)
                <=> (/\ IsObject(c) /\ "save_dir" \in SuppliedKeys(c)
                     /\ response[c].kind = "ok")
           /\ \A f \in DOMAIN files :
                /\ files[f] = JSONstringify(ReplyOutput(c))
                /\ IsResultFileName(f, Arg(c, "save_dir").s, name[c])

\* C14 amended: a file is written if and only if the caller supplies a
\* non-empty destination directory, the remote call returned a body, and
\* neither creating the directory nor writing the file failed; the document
\* written is the output object the reply encodes (data and pagination
\* summary), it is the only file written, the reply names its path, and the
\* file name contains the operation name and a timestamp.
C14_FileWrittenIffSaveSucceeded ==
    \A c \in CallIds :
        Done(c)
        => /\ (files # EmptyObject)
                <=> (/\ IsObject(c) /\ Truthy(Arg(c, "save_dir"))
                     /\ response[c].kind = "ok" /\ ~response[c].isNull
                     /\ result[c].kind = "ok"
                     /\ ~Contains(result[c].content[1].text.note, "Error saving: "))
           /\ \A f \in DOMAIN files :
                /\ files[f] = JSONstringify(ReplyOutput(c))
                /\ IsResultFileName(f, Arg(c, "save_dir").s, name[c])
                /\ SavedPath(result[c]) = f
                /\ DOMAIN files = {f}

C14_Witness ==
    \E c \in CallIds :
        /\ Done(c) /\ name[c] = "search_posts"
        /\ Arg(c, "save_dir") = Str("out")
        /\ "pagination" \in DOMAIN ReplyOutput(c)
        /\ Len(ReplyOutput(c)["data"]) > 0
        /\ \E f \in DOMAIN files :
             /\ files[f] = JSONstringify(ReplyOutput(c))
             /\ Contains(f, "search_posts")

---------------------------------------------------------------------------
(* Concurrent calls.  Every slot serves a call; the steps of the calls      *)
(* interleave at the await of the GET.  The calls are two job operations,   *)
(* with or without a save directory, answered by short envelopes.           *)

ConcNames == {"search_jobs", "get_job"}

\* argument objects over jobId and save_dir, each supplied with a value or not
ConcArgs(toolName) ==
    LET props == inputSchemaProperties(toolName) \cap {"jobId", "save_dir"}
    IN  {[kind |-> "object",
          obj |-> [k \in S |-> IF k = "save_dir" THEN Str("out") ELSE Str("v")]] :
           S \in SUBSET props}

ConcBodies(shape) ==
    {b \in Bodies(shape) :
       \/ b.isNull
       \/ "element" \in DOMAIN b.data
       \/ "elements" \in DOMAIN b.data /\ Len(b.data["elements"]) = 1}

ConcFailures == {f \in Failures : ~f.hasResponse}

ConcInit ==
    /\ Constructed
    /\ apiKey \in {"", "key"}
    /\ dirs = {}

ConcCallTool(c) ==
    /\ pc[c] = "idle"
    /\ \E n \in ConcNames : \E a \in ConcArgs(n) : Enter(c, n, a)

ConcRemoteSuccess(c) ==
    /\ pc[c] = "waiting"
    /\ \E body \in ConcBodies(Dispatch(name[c]).shape) :
         \E fault \in FsFaults : \E ts \in Clock : Resolve(c, body, fault, ts)

ConcRemoteFailure(c) ==
    /\ pc[c] = "waiting"
    /\ \E err \in ConcFailures : Reject(c, err)

ConcNext ==
    \E c \in CallIds :
        \/ ConcCallTool(c)
        \/ ConcRemoteSuccess(c)
        \/ ConcRemoteFailure(c)

ConcSpec == ConcInit /\ [][ConcNext]_vars

---------------------------------------------------------------------------
(* C15 *)

\* the call ended with a reply that names the file it wrote
Persisted(c) == Done(c) /\ SavedPath(result[c]) # <<>>

\* C15: any two tool calls that both persist their result write to different
\* files, whatever the interleaving and the clock readings, and the file of
\* each still holds the document of the call that wrote it.
C15_PersistingCallsWriteDistinctFiles ==
    \A c \in CallIds : \A d \in CallIds \ {c} :
        (Persisted(c) /\ Persisted(d))
        => /\ SavedPath(result[c]) # SavedPath(result[d])
           /\ files[SavedPath(result[c])] = JSONstringify(ReplyOutput(c))

---------------------------------------------------------------------------
(* C16 *)

\* what saveData can return for a failed save
SaveErrors ==
    {<<"Error saving: ", "EACCES: permission denied, mkdir">>,
     <<"Error saving: ", "EACCES: permission denied, open">>}

\* the notes a call can append when it runs alone: none without a directory,
\* otherwise its own path at some clock reading, or a save error
AloneNotes(c) ==
    IF ~Truthy(Arg(c, "save_dir")) THEN {<<>>}
    ELSE {<<"\n\n[Cleaned data saved to: ">> \o p \o <<"]">> :
            p \in SaveErrors \cup
                  {<<Arg(c, "save_dir").s, "/", name[c], "_", ToString(ts), ".json">> :
                     ts \in Clock}}

\* the outcome of call c is the outcome of the same name and arguments, with
\* the same remote response, served alone
OutcomeAsAlone(c) ==
    LET e == Entry(name[c], args[c])
    IN  /\ requests[c] = IF e.thrown THEN <<>> ELSE <<e.request>>
        /\ (Done(c) /\ e.thrown) => result[c] = Failed(e.error)
        /\ (Done(c) /\ ~e.thrown /\ response[c].kind = "fail")
             => result[c] = Failed(makeRequestError(response[c]))
        /\ (Done(c) /\ ~e.thrown /\ response[c].kind = "ok" /\ response[c].isNull)
             => result[c].kind = "error" /\ result[c].code = InternalError
        /\ (Done(c) /\ ~e.thrown /\ response[c].kind = "ok" /\ ~response[c].isNull)
             => /\ result[c].kind = "ok"
                /\ result[c].content[1].text.toon
                     = ReplyWithoutSaveDir(c).content[1].text.toon
                /\ result[c].content[1].text.note \in AloneNotes(c)

\* C16: concurrent tool calls are independent: under every interleaving of
\* their steps around the suspended HTTP request, the request and the reply or
\* error of each call are those the call produces alone with the same arguments
\* and the same remote response, and no step of a call changes the API key or
\* the HTTP client.
C16_ConcurrentCallsAreIndependent ==
    /\ [](\A c \in CallIds : Started(c) => OutcomeAsAlone(c))
    /\ [][apiKey' = apiKey /\ apiClient' = apiClient]_vars

C16_Witness ==
    /\ pc[1] = "waiting" /\ Done(2)
    /\ name[1] = "search_jobs" /\ name[2] = "search_jobs"
    /\ Truthy(Arg(1, "save_dir")) /\ Persisted(2)
    /\ OutcomeAsAlone(2)

---------------------------------------------------------------------------
(* C17 *)

\* the params object of the request call c handed to the HTTP client
OutboundQuery(c) == requests[c][1].params

\* C17: a query parameter appears in the outbound request only if the
\* corresponding argument was supplied in the invocation: an absent argument
\* is never sent, neither with a default nor with an empty or undefined
\* placeholder value.
C17_OnlySuppliedArgumentsAreSent ==
    \A c \in CallIds :
        requests[c] # <<>>
        => \A k \in DOMAIN OutboundQuery(c) :
             /\ k \in SuppliedKeys(c)
             /\ OutboundQuery(c)[k] # Undefined

---------------------------------------------------------------------------
(* C18 *)

\* the arguments the method of a tool copies into its query
RelevantKeys(toolName) ==
    LET m == Dispatch(toolName)
    IN  m.always \cup m.truthy \cup m.defined

\* C18: every argument that is present in the invocation and relevant to the
\* target endpoint appears in the outbound query under the same name with the
\* identical value, whatever that value is (false, 0 and the empty string
\* included).
C18_PresentArgumentsAreForwarded ==
    \A c \in CallIds :
        (IsObject(c) /\ requests[c] # <<>>)
        => \A k \in SuppliedKeys(c) \cap RelevantKeys(name[c]) :
             /\ k \in DOMAIN OutboundQuery(c)
             /\ OutboundQuery(c)[k] = Arg(c, k)

---------------------------------------------------------------------------
(* C19 *)

---------------------------------------------------------------------------
(* The tool catalog.  Every slot serves a tools/list request or a tools/call *)
(* request with any name, listed or not, and an empty or absent argument     *)
(* object.                                                                   *)

\* the reply of the ListToolsRequestSchema handler
ListToolsResult ==
    [kind |-> "tools", tools |-> [i \in 1..Len(ToolList) |-> [name |-> ToolList[i]]]]

\* The ListToolsRequestSchema handler: returns the catalog, touches nothing.
ListTools(c) ==
    /\ pc[c] = "idle"
    /\ result' = [result EXCEPT ![c] = ListToolsResult]
    /\ pc' = [pc EXCEPT ![c] = "done"]
    /\ UNCHANGED <<name, args, requests, response, dirs, files, apiKey, apiClient>>

\* names a client may call: the listed ones and some that are not
CatalogNames == CallNames \cup {"getProfile", "get_profiles", "search_geo"}

CatalogArgs ==
    {[kind |-> "undefined", obj |-> EmptyObject], [kind |-> "object", obj |-> EmptyObject]}

CatalogCallTool(c) ==
    /\ pc[c] = "idle"
    /\ \E n \in CatalogNames : \E a \in CatalogArgs : Enter(c, n, a)

CatalogNext ==
    \E c \in CallIds :
        \/ ListTools(c)
        \/ CatalogCallTool(c)

CatalogSpec == Init /\ [][CatalogNext]_vars

---------------------------------------------------------------------------
(* C20 *)

LowerCase ==
    {"a", "b", "c", "d", "e", "f", "g", "h", "i", "j", "k", "l", "m", "n", "o", "p", "q",
     "r", "s", "t", "u", "v", "w", "x", "y", "z"}

\* s matches ^[a-z]+(_[a-z]+)*$
IsSnakeCase(s) ==
    /\ Len(s) > 0
    /\ \A i \in 1..Len(s) : SubSeq(s, i, i) \in LowerCase \cup {"_"}
    /\ SubSeq(s, 1, 1) # "_" /\ SubSeq(s, Len(s), Len(s)) # "_"
    /\ \A i \in 1..(Len(s) - 1) : ~(SubSeq(s, i, i) = "_" /\ SubSeq(s, i + 1, i + 1) = "_")

\* slot c served a tools/list request
Listed(c) == Done(c) /\ result[c].kind = "tools"

ListedNames(c) == {result[c].tools[i].name : i \in 1..Len(result[c].tools)}

\* slot c served a tools/call request with an argument object
CalledWithObject(c) == Started(c) /\ ~Listed(c) /\ IsObject(c)

\* C20: listing the tools always returns the same ordered sequence of exactly
\* 17 tool definitions with pairwise distinct snake_case names, and a name is
\* listed exactly when the dispatcher accepts it (a call of that name with an
\* argument object does not fail with method-not-found).
C20_CatalogMatchesDispatcher ==
    \A l \in CallIds :
        Listed(l)
        => LET tools == result[l].tools
           IN  /\ Len(tools) = 17
               /\ \A i \in 1..Len(tools) : \A j \in 1..Len(tools) :
                    i # j => tools[i].name # tools[j].name
               /\ \A i \in 1..Len(tools) : IsSnakeCase(tools[i].name)
               /\ \A d \in CallIds : Listed(d) => result[d].tools = tools
               /\ \A c \in CallIds :
                    CalledWithObject(c)
                    => (name[c] \in ListedNames(l) <=> ~FailedWith(c, MethodNotFound))

C20_Witness ==
    /\ Listed(1) /\ Len(result[1].tools) = 17
    /\ result[1].tools[17].name = "search_geo_id"
    /\ CalledWithObject(2) /\ name[2] = "search_geo_id"
    /\ pc[2] = "waiting"

---------------------------------------------------------------------------
(* C21 *)

\* the sub-path each operation is said to use
SubPath(toolName) ==
    CASE toolName = "get_profile" -> "/profile"
      [] toolName = "search_profiles" -> "/profile-search"
      [] toolName = "get_profile_posts" -> "/profile-posts"
      [] toolName = "get_profile_comments" -> "/profile-comments"
      [] toolName = "get_profile_reactions" -> "/profile-reactions"
      [] toolName = "get_company" -> "/company"
      [] toolName = "search_companies" -> "/company-search"
      [] toolName = "get_company_posts" -> "/company-posts"
      [] toolName = "get_job" -> "/job"
      [] toolName = "search_jobs" -> "/job-search"
      [] toolName = "get_post" -> "/post"
      [] toolName = "search_posts" -> "/post-search"
      [] toolName = "get_post_comments" -> "/post-comments"
      [] toolName = "get_post_reactions" -> "/post-reactions"
      [] toolName = "get_group" -> "/group"
      [] toolName = "search_groups" -> "/group-search"
      [] toolName = "search_geo_id" -> "/geo-id-search"
      [] OTHER -> ""

\* C21: each of the 17 operations issues its remote request to its own fixed
\* sub-path, and the sub-path of a request is that of no other operation.
C21_EachOperationHasItsOwnSubPath ==
    \A c \in CallIds :
        requests[c] # <<>>
        => /\ name[c] \in ToolNames
           /\ \A i \in 1..Len(requests[c]) :
                /\ requests[c][i].endpoint = SubPath(name[c])
                /\ \A n \in ToolNames \ {name[c]} :
                     Dispatch(n).endpoint # requests[c][i].endpoint

C21_Witness ==
    \E c \in CallIds :
        /\ name[c] = "search_geo_id" /\ pc[c] = "waiting"
        /\ Len(requests[c]) = 1
        /\ requests[c][1].endpoint = "/geo-id-search"

---------------------------------------------------------------------------
(* DataCleaners: the projections of the raw entities *)

\* the largest number of fields present in a raw entity
MaxFields == 2
\* the largest length of a raw company's location list
MaxLocations == 2

Obj(o) == [t |-> "object", o |-> o]
Arr(a) == [t |-> "array", a |-> a]

\* the TypeError of a property read on undefined or null
TypeError == [t |-> "thrown", s |-> "TypeError", n |-> 0]

Nullish(v) == v.t \in {"undefined", "null"}

\* v.k
Dot(v, k) ==
    CASE v.t = "thrown" -> v
      [] Nullish(v) -> TypeError
      [] v.t = "object" -> Get(v.o, k)
      [] v.t = "array" /\ k = "length" -> Num(Len(v.a))
      [] OTHER -> Undefined

\* v?.k
OptDot(v, k) == IF Nullish(v) THEN Undefined ELSE Dot(v, k)

\* a || b
Or(a, b) == IF a.t = "thrown" \/ Truthy(a) THEN a ELSE b

\* a && b
And(a, b) == IF a.t = "thrown" \/ ~Truthy(a) THEN a ELSE b

\* v[0] of an array
First(v) == IF v.t = "array" /\ Len(v.a) > 0 THEN v.a[1] ELSE Undefined

\* ${v} inside a template literal
Text(v) ==
    CASE v.t = "string" -> v.s
      [] v.t = "number" -> ToString(v.n)
      [] v.t = "boolean" -> IF v.n = 1 THEN "true" ELSE "false"
      [] OTHER -> v.t

\* String.prototype.trim
RECURSIVE trim(_)
trim(s) ==
    IF Len(s) > 0 /\ SubSeq(s, 1, 1) = " " THEN trim(SubSeq(s, 2, Len(s)))
    ELSE IF Len(s) > 0 /\ SubSeq(s, Len(s), Len(s)) = " "
         THEN trim(SubSeq(s, 1, Len(s) - 1))
         ELSE s

\* s.replace(/^-|-$/g, '')
replaceEdgeDashes(s) ==
    LET a == IF Len(s) > 0 /\ SubSeq(s, 1, 1) = "-" THEN SubSeq(s, 2, Len(s)) ELSE s
    IN  IF Len(a) > 0 /\ SubSeq(a, Len(a), Len(a)) = "-"
        THEN SubSeq(a, 1, Len(a) - 1)
        ELSE a

\* (v || []).map(F)
MapOrEmpty(v, F(_)) ==
    LET arr == Or(v, Arr(<<>>))
    IN  IF arr.t = "array"
        THEN Arr([i \in 1..Len(arr.a) |-> F(arr.a[i])])
        ELSE TypeError

\* (v || []).find(P): the first element satisfying P, undefined when there is none
FindOrEmpty(v, P(_)) ==
    LET arr == Or(v, Arr(<<>>))
    IN  IF arr.t # "array" THEN TypeError
        ELSE IF \E i \in 1..Len(arr.a) : P(arr.a[i]).t = "thrown" THEN TypeError
        ELSE IF \E i \in 1..Len(arr.a) : Truthy(P(arr.a[i]))
        THEN arr.a[CHOOSE i \in 1..Len(arr.a) :
                     /\ Truthy(P(arr.a[i]))
                     /\ \A j \in 1..(i - 1) : ~Truthy(P(arr.a[j]))]
        ELSE Undefined

RECURSIVE HasThrown(_)
HasThrown(v) ==
    CASE v.t = "thrown" -> TRUE
      [] v.t = "object" -> \E k \in DOMAIN v.o : HasThrown(v.o[k])
      [] v.t = "array" -> \E i \in 1..Len(v.a) : HasThrown(v.a[i])
      [] OTHER -> FALSE

experienceEntry(e) ==
    Obj([position |-> Dot(e, "position"),
         company |-> Dot(e, "companyName"),
         location |-> Dot(e, "location"),
         duration |-> Dot(e, "duration"),
         startDate |-> OptDot(Dot(e, "startDate"), "text"),
         endDate |-> OptDot(Dot(e, "endDate"), "text"),
         description |-> Dot(e, "description")])

educationEntry(e) ==
    Obj([school |-> Or(Dot(e, "schoolName"), Dot(e, "title")),
         degree |-> Dot(e, "degree"),
         field |-> Dot(e, "fieldOfStudy"),
         period |-> Or(Dot(e, "period"),
                       Str(replaceEdgeDashes(
                           Text(Or(OptDot(Dot(e, "startDate"), "year"), Str("")))
                           \o "-" \o
                           Text(Or(OptDot(Dot(e, "endDate"), "year"), Str("")))))) ])

skillEntry(e) == Dot(e, "name")

certificationEntry(e) ==
    Obj([title |-> Dot(e, "title"),
         issuedBy |-> Dot(e, "issuedBy"),
         issuedAt |-> Dot(e, "issuedAt")])

DataCleaners_cleanProfile(raw) ==
    IF ~Truthy(raw) THEN Null
    ELSE Obj([id |-> Dot(raw, "id"),
              publicIdentifier |-> Dot(raw, "publicIdentifier"),
              linkedinUrl |-> Dot(raw, "linkedinUrl"),
              name |-> Str(trim(Text(Or(Dot(raw, "firstName"), Str(""))) \o " " \o
                                Text(Or(Dot(raw, "lastName"), Str(""))))),
              headline |-> Dot(raw, "headline"),
              about |-> Dot(raw, "about"),
              location |-> OptDot(Dot(raw, "location"), "linkedinText"),
              photo |-> Or(Dot(raw, "photo"), OptDot(Dot(raw, "profilePicture"), "url")),
              premium |-> Dot(raw, "premium"),
              influencer |-> Dot(raw, "influencer"),
              verified |-> Dot(raw, "verified"),
              openToWork |-> Dot(raw, "openToWork"),
              hiring |-> Dot(raw, "hiring"),
              connections |-> Dot(raw, "connectionsCount"),
              followers |-> Dot(raw, "followerCount"),
              experience |-> MapOrEmpty(Dot(raw, "experience"), experienceEntry),
              education |-> MapOrEmpty(Dot(raw, "education"), educationEntry),
              skills |-> MapOrEmpty(Dot(raw, "skills"), skillEntry),
              certifications |-> MapOrEmpty(Dot(raw, "certifications"),
                                            certificationEntry)])

DataCleaners_cleanProfileSearchResult(raw) ==
    IF ~Truthy(raw) THEN Null
    ELSE Obj([id |-> Dot(raw, "id"),
              name |-> Dot(raw, "name"),
              position |-> Dot(raw, "position"),
              location |-> OptDot(Dot(raw, "location"), "linkedinText"),
              linkedinUrl |-> Dot(raw, "linkedinUrl"),
              publicIdentifier |-> Dot(raw, "publicIdentifier")])

isHeadquarter(l) == Dot(l, "headquarter")

\* hq?.parsed?.text || hq?.city
headquarterOf(hq) == Or(OptDot(OptDot(hq, "parsed"), "text"), OptDot(hq, "city"))

\* a variant of cleanCompany that always takes the first location
DataCleaners_cleanCompanyFirstLocation(raw) ==
    IF ~Truthy(raw) THEN Null
    ELSE LET hq == First(Or(Dot(raw, "locations"), Arr(<<>>)))
         IN  Obj([id |-> Dot(raw, "id"),
                  universalName |-> Dot(raw, "universalName"),
                  linkedinUrl |-> Dot(raw, "linkedinUrl"),
                  name |-> Dot(raw, "name"),
                  website |-> Dot(raw, "website"),
                  logo |-> Dot(raw, "logo"),
                  description |-> Dot(raw, "description"),
                  employeeCount |-> Dot(raw, "employeeCount"),
                  followers |-> Dot(raw, "followerCount"),
                  headquarter |-> headquarterOf(hq)])

DataCleaners_cleanCompany(raw) ==
    IF ~Truthy(raw) THEN Null
    ELSE LET hq == Or(FindOrEmpty(Dot(raw, "locations"), isHeadquarter),
                      IF Nullish(Dot(raw, "locations")) THEN Undefined
                      ELSE First(Dot(raw, "locations")))
         IN  Obj([id |-> Dot(raw, "id"),
                  universalName |-> Dot(raw, "universalName"),
                  linkedinUrl |-> Dot(raw, "linkedinUrl"),
                  name |-> Dot(raw, "name"),
                  website |-> Dot(raw, "website"),
                  logo |-> Dot(raw, "logo"),
                  description |-> Dot(raw, "description"),
                  employeeCount |-> Dot(raw, "employeeCount"),
                  followers |-> Dot(raw, "followerCount"),
                  headquarter |-> headquarterOf(hq)])

\* raw.salary?.min && raw.salary?.max ? `${min}-${max} ${currency || ''}` : null
composedSalary(raw) ==
    LET salary == Dot(raw, "salary")
    IN  IF Truthy(And(OptDot(salary, "min"), OptDot(salary, "max")))
        THEN Str(Text(Dot(salary, "min")) \o "-" \o Text(Dot(salary, "max")) \o " " \o
                 Text(Or(Dot(salary, "currency"), Str(""))))
        ELSE Null

DataCleaners_cleanJob(raw) ==
    IF ~Truthy(raw) THEN Null
    ELSE Obj([id |-> Dot(raw, "id"),
              title |-> Dot(raw, "title"),
              linkedinUrl |-> Or(Dot(raw, "linkedinUrl"), Dot(raw, "url")),
              state |-> Dot(raw, "jobState"),
              postedDate |-> Dot(raw, "postedDate"),
              location |-> OptDot(Dot(raw, "location"), "linkedinText"),
              company |-> Or(OptDot(Dot(raw, "company"), "name"),
                             Dot(raw, "companyName")),
              companyUrl |-> Or(OptDot(Dot(raw, "company"), "linkedinUrl"),
                                Dot(raw, "companyLink")),
              salary |-> Or(OptDot(Dot(raw, "salary"), "text"), composedSalary(raw)),
              employmentType |-> Dot(raw, "employmentType"),
              workplaceType |-> Dot(raw, "workplaceType"),
              easyApply |-> Dot(raw, "easyApply"),
              description |-> Dot(raw, "descriptionText")])

\* a variant of cleanJobSearchResult that reads raw.company.name
DataCleaners_cleanJobSearchResultStrict(raw) ==
    IF ~Truthy(raw) THEN Null
    ELSE Obj([id |-> Dot(raw, "id"),
              title |-> Dot(raw, "title"),
              url |-> Dot(raw, "url"),
              postedDate |-> Dot(raw, "postedDate"),
              company |-> Dot(Dot(raw, "company"), "name"),
              location |-> OptDot(Dot(raw, "location"), "linkedinText"),
              easyApply |-> Dot(raw, "easyApply")])

DataCleaners_cleanJobSearchResult(raw) ==
    IF ~Truthy(raw) THEN Null
    ELSE Obj([id |-> Dot(raw, "id"),
              title |-> Dot(raw, "title"),
              url |-> Dot(raw, "url"),
              postedDate |-> Dot(raw, "postedDate"),
              company |-> OptDot(Dot(raw, "company"), "name"),
              location |-> OptDot(Dot(raw, "location"), "linkedinText"),
              easyApply |-> Dot(raw, "easyApply")])

DataCleaners_cleanPost(raw) ==
    IF ~Truthy(raw) THEN Null
    ELSE Obj([id |-> Dot(raw, "id"),
              linkedinUrl |-> Dot(raw, "linkedinUrl"),
              content |-> Dot(raw, "content"),
              authorName |-> OptDot(Dot(raw, "author"), "name"),
              authorType |-> OptDot(Dot(raw, "author"), "type"),
              postedAgo |-> Or(OptDot(Dot(raw, "postedAt"), "postedAgoText"),
                               OptDot(Dot(raw, "postedAt"), "postedAgoShort")),
              likes |-> OptDot(Dot(raw, "engagement"), "likes"),
              comments |-> OptDot(Dot(raw, "engagement"), "comments"),
              shares |-> OptDot(Dot(raw, "engagement"), "shares"),
              hasVideo |-> Bool(Truthy(Dot(raw, "postVideo"))),
              hasImages |-> Bool(Or(OptDot(Dot(raw, "postImages"), "length"),
                                    Num(0)).n > 0)])

DataCleaners_cleanGroup(raw) ==
    IF ~Truthy(raw) THEN Null
    ELSE Obj([id |-> Dot(raw, "id"),
              linkedinUrl |-> Dot(raw, "linkedinUrl"),
              name |-> Dot(raw, "name"),
              members |-> Or(Dot(raw, "members"), Dot(raw, "memberCount")),
              summary |-> Or(Dot(raw, "summary"), Dot(raw, "description"))])

DataCleaners_cleanGeoId(raw) ==
    IF ~Truthy(raw) THEN Null
    ELSE Obj([geoId |-> Dot(raw, "geoId"), title |-> Dot(raw, "title")])

DataCleaners_cleanComment(raw) ==
    IF ~Truthy(raw) THEN Null
    ELSE Obj([id |-> Dot(raw, "id"),
              content |-> Dot(raw, "content"),
              authorName |-> OptDot(Dot(raw, "author"), "name"),
              postedAgo |-> OptDot(Dot(raw, "postedAt"), "postedAgoText"),
              likes |-> OptDot(Dot(raw, "engagement"), "likes")])

DataCleaners_cleanReaction(raw) ==
    IF ~Truthy(raw) THEN Null
    ELSE Obj([name |-> Dot(raw, "name"),
              headline |-> Dot(raw, "headline"),
              reactionType |-> Dot(raw, "reactionType"),
              linkedinUrl |-> Dot(raw, "linkedinUrl")])

CleanerNames ==
    {"cleanProfile", "cleanProfileSearchResult", "cleanCompany", "cleanJob",
     "cleanJobSearchResult", "cleanPost", "cleanGroup", "cleanGeoId", "cleanComment",
     "cleanReaction"}

DataCleaners(cleaner, raw) ==
    CASE cleaner = "cleanProfile" -> DataCleaners_cleanProfile(raw)
      [] cleaner = "cleanProfileSearchResult" -> DataCleaners_cleanProfileSearchResult(raw)
      [] cleaner = "cleanCompany" -> DataCleaners_cleanCompany(raw)
      [] cleaner = "cleanJob" -> DataCleaners_cleanJob(raw)
      [] cleaner = "cleanJobSearchResult" -> DataCleaners_cleanJobSearchResult(raw)
      [] cleaner = "cleanPost" -> DataCleaners_cleanPost(raw)
      [] cleaner = "cleanGroup" -> DataCleaners_cleanGroup(raw)
      [] cleaner = "cleanGeoId" -> DataCleaners_cleanGeoId(raw)
      [] cleaner = "cleanComment" -> DataCleaners_cleanComment(raw)
      [] cleaner = "cleanReaction" -> DataCleaners_cleanReaction(raw)

---------------------------------------------------------------------------
(* Raw entities in which fields are absent *)

Restrict(f, S) == [k \in S |-> f[k]]

\* every object that keeps a subset of the keys of full
PartialObjects(full) == {Obj(Restrict(full, S)) : S \in SUBSET DOMAIN full}

\* the arrays of at most n elements drawn from E
RECURSIVE ArraysUpTo(_, _)
ArraysUpTo(E, n) ==
    IF n = 0 THEN {<<>>}
    ELSE LET shorter == ArraysUpTo(E, n - 1)
         IN  shorter \cup {Append(a, e) : a \in shorter, e \in E}

\* the subsets of D of at most n elements
RECURSIVE SubsetsUpTo(_, _)
SubsetsUpTo(D, n) ==
    IF n = 0 THEN {{}}
    ELSE LET smaller == SubsetsUpTo(D, n - 1)
         IN  smaller \cup {s \cup {x} : s \in smaller, x \in D}

\* the objects with exactly the keys S, each value drawn from fields[key]
RECURSIVE ObjectsOver(_, _)
ObjectsOver(fields, S) ==
    IF S = {} THEN {EmptyObject}
    ELSE LET k == CHOOSE x \in S : TRUE
         IN  {(k :> v) @@ o : v \in fields[k], o \in ObjectsOver(fields, S \ {k})}

SalaryObjects ==
    {Obj(t @@ lo @@ hi @@ cur) :
        t \in {EmptyObject, ("text" :> Str("$100k/yr"))},
        lo \in {EmptyObject, ("min" :> Num(0)), ("min" :> Num(50))},
        hi \in {EmptyObject, ("max" :> Num(0)), ("max" :> Num(90))},
        cur \in {EmptyObject, ("currency" :> Str("USD"))}}

LocationObjects ==
    {Obj(("headquarter" :> Bool(flag)) @@ city @@ parsed) :
        flag \in BOOLEAN,
        city \in {EmptyObject, ("city" :> Str("Paris")), ("city" :> Str("Rome"))},
        parsed \in {EmptyObject, ("parsed" :> Obj([text |-> Str("Oslo, NO")]))}}

LocationLists == {Arr(a) : a \in ArraysUpTo(LocationObjects, MaxLocations)}

Text1(x) == {Str(x)}
Flag == {Bool(TRUE), Bool(FALSE)}
Nested(full) == PartialObjects(full)
ListOf(E) == {Arr(<<>>)} \cup {Arr(<<e>>) : e \in E}

ExperienceObjects ==
    {Obj(EmptyObject),
     Obj([startDate |-> Obj(EmptyObject)]),
     Obj([position |-> Str("CTO"), companyName |-> Str("Acme"),
          startDate |-> Obj([text |-> Str("Jan 2020")]),
          endDate |-> Obj([text |-> Str("Present")])])}

EducationObjects ==
    {Obj(EmptyObject),
     Obj([schoolName |-> Str("MIT"), degree |-> Str("BSc"), period |-> Str("2010-2014")]),
     Obj([title |-> Str("MIT"), startDate |-> Obj([year |-> Num(2010)]),
          endDate |-> Obj([year |-> Num(2014)])]),
     Obj([startDate |-> Obj([year |-> Num(2010)])]),
     Obj([endDate |-> Obj([year |-> Num(2014)])])}

\* the source fields a projection reads, each with the values it may carry
RawFields(cleaner) ==
    CASE cleaner = "cleanProfile" ->
           [id |-> Text1("p1"), publicIdentifier |-> Text1("ann"),
            linkedinUrl |-> Text1("in/ann"), firstName |-> Text1("Ann"),
            lastName |-> Text1("Lee"), headline |-> Text1("CTO"), about |-> Text1("Hi"),
            location |-> Nested([linkedinText |-> Str("Oslo")]),
            photo |-> Text1("p.png"), profilePicture |-> Nested([url |-> Str("pp.png")]),
            premium |-> Flag, influencer |-> Flag, verified |-> Flag,
            openToWork |-> Flag, hiring |-> Flag,
            connectionsCount |-> {Num(500)}, followerCount |-> {Num(0), Num(7)},
            experience |-> ListOf(ExperienceObjects),
            education |-> ListOf(EducationObjects),
            skills |-> ListOf({Obj(EmptyObject), Obj([name |-> Str("TLA+")])}),
            certifications |-> ListOf({Obj(EmptyObject), Obj([title |-> Str("CKA")])})]
      [] cleaner = "cleanProfileSearchResult" ->
           [id |-> Text1("p1"), name |-> Text1("Ann Lee"), position |-> Text1("CTO"),
            location |-> Nested([linkedinText |-> Str("Oslo")]),
            linkedinUrl |-> Text1("in/ann"), publicIdentifier |-> Text1("ann")]
      [] cleaner = "cleanCompany" ->
           [id |-> Text1("c1"), universalName |-> Text1("acme"),
            linkedinUrl |-> Text1("company/acme"), name |-> Text1("Acme"),
            website |-> Text1("acme.io"), logo |-> Text1("l.png"),
            description |-> Text1("Anvils"), employeeCount |-> {Num(0), Num(40)},
            followerCount |-> {Num(7)}, locations |-> LocationLists]
      [] cleaner = "cleanJob" ->
           [id |-> Text1("j1"), title |-> Text1("Engineer"),
            linkedinUrl |-> Text1("jobs/j1"), url |-> Text1("u/j1"),
            jobState |-> Text1("LISTED"), postedDate |-> Text1("2024-01-01"),
            location |-> Nested([linkedinText |-> Str("Oslo")]),
            company |-> Nested([name |-> Str("Acme"), linkedinUrl |-> Str("company/acme")]),
            companyName |-> Text1("Acme Inc"), companyLink |-> Text1("acme.io"),
            salary |-> SalaryObjects, employmentType |-> Text1("full_time"),
            workplaceType |-> Text1("remote"), easyApply |-> Flag,
            descriptionText |-> Text1("Build")]
      [] cleaner = "cleanJobSearchResult" ->
           [id |-> Text1("j1"), title |-> Text1("Engineer"), url |-> Text1("u/j1"),
            postedDate |-> Text1("2024-01-01"), company |-> Nested([name |-> Str("Acme")]),
            location |-> Nested([linkedinText |-> Str("Oslo")]), easyApply |-> Flag]
      [] cleaner = "cleanPost" ->
           [id |-> Text1("s1"), linkedinUrl |-> Text1("posts/s1"), content |-> Text1("Hello"),
            author |-> Nested([name |-> Str("Ann"), type |-> Str("profile")]),
            postedAt |-> Nested([postedAgoText |-> Str("2 days ago"),
                                 postedAgoShort |-> Str("2d")]),
            engagement |-> Nested([likes |-> Num(3), comments |-> Num(0),
                                   shares |-> Num(1)]),
            postVideo |-> {Obj([url |-> Str("v.mp4")])},
            postImages |-> ListOf({Obj([url |-> Str("i.png")])})]
      [] cleaner = "cleanGroup" ->
           [id |-> Text1("g1"), linkedinUrl |-> Text1("groups/g1"), name |-> Text1("TLA"),
            members |-> {Num(0), Num(12)}, memberCount |-> {Num(15)},
            summary |-> Text1("Specs"), description |-> Text1("About specs")]
      [] cleaner = "cleanGeoId" ->
           [geoId |-> Text1("103644278"), title |-> Text1("United States")]
      [] cleaner = "cleanComment" ->
           [id |-> Text1("m1"), content |-> Text1("Nice"),
            author |-> Nested([name |-> Str("Ann")]),
            postedAt |-> Nested([postedAgoText |-> Str("1 day ago")]),
            engagement |-> Nested([likes |-> Num(2)])]
      [] cleaner = "cleanReaction" ->
           [name |-> Text1("Ann"), headline |-> Text1("CTO"),
            reactionType |-> Text1("LIKE"), linkedinUrl |-> Text1("in/ann")]

\* the raw entities handed to a projection: at most MaxFields fields are present
RawEntities(cleaner) ==
    LET fields == RawFields(cleaner)
    IN  UNION {ObjectsOver(fields, S) : S \in SubsetsUpTo(DOMAIN fields, MaxFields)}

---------------------------------------------------------------------------
(* The projection specification: one projection applied to one raw entity *)

Cleaned(cleaner, raw) ==
    LET value == DataCleaners(cleaner, Obj(raw))
    IN  IF HasThrown(value) THEN [kind |-> "thrown", error |-> TypeError]
        ELSE [kind |-> "cleaned", value |-> value]

CleanRaw(c) ==
    /\ pc[c] = "idle"
    /\ \E cleaner \in CleanerNames : \E raw \in RawEntities(cleaner) :
         /\ pc' = [pc EXCEPT ![c] = "done"]
         /\ name' = [name EXCEPT ![c] = cleaner]
         /\ response' = [response EXCEPT ![c] = [kind |-> "raw", raw |-> raw]]
         /\ result' = [result EXCEPT ![c] = Cleaned(cleaner, raw)]
         /\ UNCHANGED <<args, requests, dirs, files, apiKey, apiClient>>

CleanNext == CleanRaw(1)

CleanSpec == Init /\ [][CleanNext]_vars

RawOf(c) == response[c].raw
Projected(c) == pc[c] = "done" /\ response[c].kind = "raw"
CleanedValue(c) == result[c].value.o

---------------------------------------------------------------------------
(* C22 *)

\* the source fields an output field of a projection is computed from
SourceFields(cleaner, f) ==
    CASE cleaner = "cleanProfile" /\ f = "name" -> {"firstName", "lastName"}
      [] cleaner = "cleanProfile" /\ f = "photo" -> {"photo", "profilePicture"}
      [] cleaner = "cleanProfile" /\ f = "connections" -> {"connectionsCount"}
      [] cleaner \in {"cleanProfile", "cleanCompany"} /\ f = "followers" -> {"followerCount"}
      [] cleaner = "cleanCompany" /\ f = "headquarter" -> {"locations"}
      [] cleaner = "cleanJob" /\ f = "linkedinUrl" -> {"linkedinUrl", "url"}
      [] cleaner = "cleanJob" /\ f = "state" -> {"jobState"}
      [] cleaner = "cleanJob" /\ f = "company" -> {"company", "companyName"}
      [] cleaner = "cleanJob" /\ f = "companyUrl" -> {"company", "companyLink"}
      [] cleaner = "cleanJob" /\ f = "description" -> {"descriptionText"}
      [] cleaner = "cleanJobSearchResult" /\ f = "company" -> {"company"}
      [] cleaner \in {"cleanPost", "cleanComment"} /\ f \in {"authorName", "authorType"}
           -> {"author"}
      [] cleaner \in {"cleanPost", "cleanComment"} /\ f = "postedAgo" -> {"postedAt"}
      [] cleaner \in {"cleanPost", "cleanComment"} /\ f \in {"likes", "comments", "shares"}
           -> {"engagement"}
      [] cleaner = "cleanPost" /\ f = "hasVideo" -> {"postVideo"}
      [] cleaner = "cleanPost" /\ f = "hasImages" -> {"postImages"}
      [] cleaner = "cleanGroup" /\ f = "members" -> {"members", "memberCount"}
      [] cleaner = "cleanGroup" /\ f = "summary" -> {"summary", "description"}
      [] OTHER -> {f}

\* an output field that carries nothing: undefined (omitted by the encoders),
\* null, or a list without entries
NullOrOmitted(v) == Nullish(v) \/ (v.t = "array" /\ v.a = <<>>)

\* every projection of an incomplete raw entity returns a shaped record
ProjectionsNeverThrow ==
    \A c \in CallIds :
        Projected(c) => result[c].kind = "cleaned" /\ result[c].value.t = "object"

\* C22: every projection is total over incomplete input: for a raw entity in
\* which any subset of fields is absent it returns a shaped record without
\* throwing, and an output field whose source fields are all absent is null or
\* omitted.
C22_ProjectionsAreTotal ==
    \A c \in CallIds :
        Projected(c)
        => /\ result[c].kind = "cleaned" /\ result[c].value.t = "object"
           /\ \A f \in DOMAIN CleanedValue(c) :
                SourceFields(name[c], f) \cap DOMAIN RawOf(c) = {}
                => NullOrOmitted(CleanedValue(c)[f])

---------------------------------------------------------------------------
(* C23 *)

RepliedOk(c) == Done(c) /\ result[c].kind = "ok"

EncodedPayload(c) == result[c].content[1].text.toon

\* C23: the encoded payload of a reply is determined by the operation, the raw
\* envelope and max_items alone: any two calls that agree on these three carry
\* identical encoded payloads, whatever their other arguments and in whatever
\* order their steps were taken.
C23_PayloadIsDeterministic ==
    \A c1 \in CallIds : \A c2 \in CallIds :
        (/\ RepliedOk(c1) /\ RepliedOk(c2)
         /\ name[c1] = name[c2]
         /\ response[c1].data = response[c2].data
         /\ Arg(c1, "max_items") = Arg(c2, "max_items"))
        => EncodedPayload(c1) = EncodedPayload(c2)

C23_Witness ==
    \E c1 \in CallIds : \E c2 \in CallIds :
        /\ c1 # c2 /\ RepliedOk(c1) /\ RepliedOk(c2)
        /\ name[c1] = name[c2]
        /\ response[c1].data = response[c2].data
        /\ response[c1].data # EmptyObject
        /\ Truthy(Arg(c1, "save_dir")) /\ ~Truthy(Arg(c2, "save_dir"))
        /\ result[c1].content[1].text.note # result[c2].content[1].text.note
        /\ EncodedPayload(c1) = EncodedPayload(c2)

---------------------------------------------------------------------------
(* C25 *)

\* The HTTP client is built with timeout: 30000, so a suspended GET settles:
\* it resolves, rejects or times out (a timeout is one of the rejections).
LiveNames == {"get_job", "get_jobs"}

\* no arguments, an empty object, or a job id
LiveArgs ==
    {[kind |-> "undefined", obj |-> EmptyObject],
     [kind |-> "object", obj |-> EmptyObject],
     [kind |-> "object", obj |-> ("jobId" :> Str("v"))]}

LiveCallTool(c) ==
    /\ pc[c] = "idle"
    /\ \E n \in LiveNames : \E a \in LiveArgs : Enter(c, n, a)

LiveRemoteSuccess(c) ==
    /\ pc[c] = "waiting"
    /\ \E body \in ConcBodies(Dispatch(name[c]).shape) : Resolve(c, body, "none", 0)

LiveRemoteFailure(c) ==
    /\ pc[c] = "waiting"
    /\ \E err \in ConcFailures : Reject(c, err)

LiveNext ==
    \E c \in CallIds :
        \/ LiveCallTool(c)
        \/ LiveRemoteSuccess(c)
        \/ LiveRemoteFailure(c)

LiveSpec ==
    /\ Init
    /\ [][LiveNext]_vars
    /\ \A c \in CallIds : WF_vars(LiveRemoteSuccess(c) \/ LiveRemoteFailure(c))

\* a successful reply of a single text content item
SingleTextReply(r) ==
    /\ r.kind = "ok"
    /\ Len(r.content) = 1
    /\ r.content[1].type = "text"

\* a single structured error
SingleStructuredError(r) ==
    /\ r.kind = "error"
    /\ r.code \in {InvalidParams, MethodNotFound, InternalError}

\* C25: every tool call eventually completes, provided its remote call
\* eventually resolves, rejects or times out, and a completed call has exactly
\* one outcome: a successful reply of a single text content item or a single
\* structured error, never both and never neither; the outcome of a completed
\* call does not change afterwards.
C25_EveryCallCompletesWithOneOutcome ==
    /\ \A c \in CallIds : (pc[c] = "waiting") ~> Done(c)
    /\ [](\A c \in CallIds :
            /\ Done(c) => (SingleTextReply(result[c]) \/ SingleStructuredError(result[c]))
            /\ ~Done(c) => result[c] = NoResult)
    /\ [][\A c \in CallIds : Done(c) => Done(c)' /\ result[c]' = result[c]]_vars

C25_Witness ==
    \E c1 \in CallIds : \E c2 \in CallIds :
        /\ Done(c1) /\ response[c1].kind = "ok" /\ SingleTextReply(result[c1])
        /\ Done(c2) /\ response[c2].kind = "fail" /\ SingleStructuredError(result[c2])
        /\ response[c2].message = "timeout of 30000ms exceeded"

---------------------------------------------------------------------------
(* C26 *)

ProjectedBy(c, cleaner) == Projected(c) /\ name[c] = cleaner

\* the parts of the raw job's salary, undefined when absent
RawSalary(c, k) == OptDot(Get(RawOf(c), "salary"), k)

HasSalaryText(c) == RawSalary(c, "text").t = "string"
HasSalaryRange(c) == RawSalary(c, "min").t = "number" /\ RawSalary(c, "max").t = "number"

\* min, max and currency put together
SalaryRangeText(c) ==
    Str(ToString(RawSalary(c, "min").n) \o "-" \o ToString(RawSalary(c, "max").n) \o " " \o
        (IF RawSalary(c, "currency").t = "string" THEN RawSalary(c, "currency").s ELSE ""))

\* C26: the job projection's salary is the pre-formatted salary text when it is
\* present; otherwise it is the string composed of min, max and currency
\* whenever min and max are present, for every numeric value of min and max,
\* 0 included; it is null exactly when neither source exists.
C26_SalaryFromTextOrRange ==
    \A c \in CallIds :
        ProjectedBy(c, "cleanJob")
        => LET salary == CleanedValue(c)["salary"]
           IN  /\ HasSalaryText(c) => salary = RawSalary(c, "text")
               /\ (~HasSalaryText(c) /\ HasSalaryRange(c)) => salary = SalaryRangeText(c)
               /\ (salary = Null) <=> (~HasSalaryText(c) /\ ~HasSalaryRange(c))

---------------------------------------------------------------------------
(* C27 *)

\* the raw company's location list, empty when the field is absent
RawLocations(c) ==
    IF "locations" \in DOMAIN RawOf(c) THEN RawOf(c)["locations"].a ELSE <<>>

Flagged(l) == Get(l.o, "headquarter") = Bool(TRUE)

\* the text a location yields: its parsed text, else its city
LocationText(l) ==
    IF "parsed" \in DOMAIN l.o /\ "text" \in DOMAIN l.o["parsed"].o
    THEN l.o["parsed"].o["text"]
    ELSE Get(l.o, "city")

\* C27: the company projection's headquarter is derived from the first
\* location in list order that is flagged as headquarters when the list
\* contains one, from the first location of the list when none is flagged, and
\* is absent when the list is empty or missing.
C27_HeadquarterFromFlaggedOrFirst ==
    \A c \in CallIds :
        ProjectedBy(c, "cleanCompany")
        => LET locs == RawLocations(c)
               hq == CleanedValue(c)["headquarter"]
               flagged == {i \in 1..Len(locs) : Flagged(locs[i])}
           IN  /\ flagged # {}
                    => hq = LocationText(locs[CHOOSE i \in flagged :
                                                \A j \in flagged : i <= j])
               /\ (flagged = {} /\ locs # <<>>) => hq = LocationText(locs[1])
               /\ locs = <<>> => hq = Undefined

\* a flagged location after an unflagged one: the flagged one is used
C27_Witness ==
    \E c \in CallIds :
        /\ ProjectedBy(c, "cleanCompany")
        /\ Len(RawLocations(c)) = 2
        /\ ~Flagged(RawLocations(c)[1]) /\ Flagged(RawLocations(c)[2])
        /\ LocationText(RawLocations(c)[1]) = Str("Paris")
        /\ CleanedValue(c)["headquarter"] = Str("Rome")

---------------------------------------------------------------------------
(* C28 *)

FixedCodes == {InvalidParams, MethodNotFound, InternalError}

\* what the handler threw before its await, if anything
EntryFault(c) == Entry(name[c], args[c])

\* the error of call c carries code and message of the McpError e unchanged
Propagated(c, e) ==
    result[c] = [kind |-> "error", code |-> e.code, message |-> e.message]

\* the error of call c is the internal-error wrapping of the plain fault e
Rewrapped(c, e) ==
    result[c] = [kind |-> "error", code |-> InternalError,
                 message |-> <<"HarvestAPI error: ">> \o e.message]

\* the errors of a completed call: fixed codes, McpErrors propagated unchanged,
\* every other fault re-wrapped as internal-error
ErrorsAreStructured(c) ==
    /\ result[c].kind = "error" => result[c].code \in FixedCodes
    /\ (EntryFault(c).thrown /\ EntryFault(c).error.cls = "McpError")
         => Propagated(c, EntryFault(c).error)
    /\ (EntryFault(c).thrown /\ EntryFault(c).error.cls = "Error")
         => Rewrapped(c, EntryFault(c).error)
    /\ (~EntryFault(c).thrown /\ response[c].kind = "fail")
         => Rewrapped(c, makeRequestError(response[c]))
    /\ (~EntryFault(c).thrown /\ response[c].kind = "ok" /\ response[c].isNull)
         => FailedWith(c, InternalError)

\* C28: every error that leaves a tool call is a structured error with one of
\* the fixed codes: an error that already carries a code is propagated with
\* code and message unchanged, every other fault raised during the call (a
\* failed argument rule, a transport failure, a fault while shaping) is
\* re-wrapped as internal-error, and none of these faults ends in a successful
\* reply.
C28_NoFaultInASuccessfulReply ==
    \A c \in CallIds :
        Done(c)
        => /\ ErrorsAreStructured(c)
           /\ result[c].kind = "ok"
                => /\ ~EntryFault(c).thrown
                   /\ response[c].kind = "ok" /\ ~response[c].isNull

\* a failed argument rule, re-wrapped as internal-error
C28_Witness ==
    \E c \in CallIds :
        /\ Done(c) /\ IsObject(c) /\ name[c] = "get_company"
        /\ EntryFault(c).thrown /\ EntryFault(c).error.cls = "Error"
        /\ FailedWith(c, InternalError)
        /\ Contains(result[c].message, "HarvestAPI error: ")

---------------------------------------------------------------------------
(* C29 *)

\* call c ends in an error in this step
EndsInError(c) == ~Done(c) /\ Done(c)' /\ result[c]'.kind = "error"

\* call c is entered in this step
IsEntered(c) == pc[c] = "idle" /\ pc[c]' # "idle"

\* C29: a tool call that ends in an error (unknown tool, missing arguments,
\* failed argument rule, remote or transport failure) leaves the file system
\* unchanged: neither the step that enters a call nor the step in which a call
\* ends in an error creates a directory or writes a file, even when a save
\* directory was supplied.
C29_ErrorLeavesFileSystemUnchanged ==
    [][\A c \in CallIds :
         (IsEntered(c) \/ EndsInError(c)) => (dirs' = dirs /\ files' = files)]_vars

\* a call with a save directory failed at the remote request: nothing exists
C29_Witness ==
    \E c \in CallIds :
        /\ Done(c) /\ result[c].kind = "error"
        /\ IsObject(c) /\ Truthy(Arg(c, "save_dir"))
        /\ response[c].kind = "fail"
        /\ Arg(c, "save_dir").s \notin dirs
        /\ files = EmptyObject

---------------------------------------------------------------------------
(* The second implementation: the same server with JsonResponseHandler *)

\* the switch of its CallToolRequestSchema handler and the parameter assembly
\* and argument rule of the method each case calls
JsonDispatch(toolName) ==
    CASE toolName = "get_profile" ->
           [tool |-> "get_profile", endpoint |-> "/profile", always |-> {},
            truthy |-> {"url", "publicIdentifier", "profileId", "findEmail",
                       "includeAboutProfile"},
            defined |-> {},
            rule |-> <<"url", "publicIdentifier", "profileId">>,
            ruleMsg |-> <<"At least one of ", "url", ", ", "publicIdentifier", ", or ",
                        "profileId", " is required">>]
      [] toolName = "search_profiles" ->
           [tool |-> "search_profiles", endpoint |-> "/profile-search", always |-> {"search"},
            truthy |-> {"currentCompany", "pastCompany", "school", "firstName",
                       "lastName", "title", "location", "geoId", "industryId",
                       "keywordsCompany", "keywordsSchool", "page"},
            defined |-> {},
            rule |-> <<>>,
            ruleMsg |-> <<>>]
      [] toolName = "get_profile_posts" ->
           [tool |-> "get_profile_posts", endpoint |-> "/profile-posts", always |-> {},
            truthy |-> {"profile", "profileId", "profilePublicIdentifier",
                       "postedLimit", "page", "paginationToken"},
            defined |-> {},
            rule |-> <<"profile", "profileId", "profilePublicIdentifier">>,
            ruleMsg |-> <<"At least one of ", "profile", ", ", "profileId", ", or ",
                        "profilePublicIdentifier", " is required">>]
      [] toolName = "get_profile_comments" ->
           [tool |-> "get_profile_comments", endpoint |-> "/profile-comments", always |-> {},
            truthy |-> {"profile", "profileId", "postedLimit", "page",
                       "paginationToken"},
            defined |-> {},
            rule |-> <<"profile", "profileId">>,
            ruleMsg |-> <<"At least one of ", "profile", " or ", "profileId",
                        " is required">>]
      [] toolName = "get_profile_reactions" ->
           [tool |-> "get_profile_reactions", endpoint |-> "/profile-reactions", always |-> {},
            truthy |-> {"profile", "profileId", "page", "paginationToken"},
            defined |-> {},
            rule |-> <<"profile", "profileId">>,
            ruleMsg |-> <<"At least one of ", "profile", " or ", "profileId",
                        " is required">>]
      [] toolName = "get_company" ->
           [tool |-> "get_company", endpoint |-> "/company", always |-> {},
            truthy |-> {"url", "universalName", "search"},
            defined |-> {},
            rule |-> <<"url", "universalName", "search">>,
            ruleMsg |-> <<"At least one of ", "url", ", ", "universalName", ", or ",
                        "search", " is required">>]
      [] toolName = "search_companies" ->
           [tool |-> "search_companies", endpoint |-> "/company-search", always |-> {"search"},
            truthy |-> {"location", "geoId", "companySize", "page"},
            defined |-> {},
            rule |-> <<>>,
            ruleMsg |-> <<>>]
      [] toolName = "get_company_posts" ->
           [tool |-> "get_company_posts", endpoint |-> "/company-posts", always |-> {},
            truthy |-> {"company", "companyId", "companyUniversalName", "postedLimit",
                       "page", "paginationToken"},
            defined |-> {},
            rule |-> <<"company", "companyId", "companyUniversalName">>,
            ruleMsg |-> <<"At least one of ", "company", ", ", "companyId", ", or ",
                        "companyUniversalName", " is required">>]
      [] toolName = "get_job" ->
           [tool |-> "get_job", endpoint |-> "/job", always |-> {},
            truthy |-> {"jobId", "url"},
            defined |-> {},
            rule |-> <<"jobId", "url">>,
            ruleMsg |-> <<"At least one of ", "jobId", " or ", "url", " is required">>]
      [] toolName = "search_jobs" ->
           [tool |-> "search_jobs", endpoint |-> "/job-search", always |-> {},
            truthy |-> {"search", "companyId", "location", "geoId", "sortBy",
                       "workplaceType", "employmentType", "salary", "postedLimit",
                       "experienceLevel", "industryId", "functionId",
                       "under10Applicants", "page"},
            defined |-> {"easyApply"},
            rule |-> <<>>,
            ruleMsg |-> <<>>]
      [] toolName = "get_post" ->
           [tool |-> "get_post", endpoint |-> "/post", always |-> {"url"},
            truthy |-> {},
            defined |-> {},
            rule |-> <<>>,
            ruleMsg |-> <<>>]
      [] toolName = "search_posts" ->
           [tool |-> "search_posts", endpoint |-> "/post-search", always |-> {},
            truthy |-> {"search", "profile", "profileId", "company", "companyId",
                       "authorsCompany", "authorsCompanyId", "group", "postedLimit",
                       "sortBy", "page", "paginationToken"},
            defined |-> {},
            rule |-> <<>>,
            ruleMsg |-> <<>>]
      [] toolName = "get_post_comments" ->
           [tool |-> "get_post_comments", endpoint |-> "/post-comments", always |-> {"post"},
            truthy |-> {"sortBy", "page", "paginationToken"},
            defined |-> {},
            rule |-> <<>>,
            ruleMsg |-> <<>>]
      [] toolName = "get_post_reactions" ->
           [tool |-> "get_post_reactions", endpoint |-> "/post-reactions", always |-> {"post"},
            truthy |-> {"page"},
            defined |-> {},
            rule |-> <<>>,
            ruleMsg |-> <<>>]
      [] toolName = "get_group" ->
           [tool |-> "get_group", endpoint |-> "/group", always |-> {},
            truthy |-> {"url", "groupId"},
            defined |-> {},
            rule |-> <<"url", "groupId">>,
            ruleMsg |-> <<"At least one of ", "url", " or ", "groupId",
                        " is required">>]
      [] toolName = "search_groups" ->
           [tool |-> "search_groups", endpoint |-> "/group-search", always |-> {"search"},
            truthy |-> {"page"},
            defined |-> {},
            rule |-> <<>>,
            ruleMsg |-> <<>>]
      [] toolName = "search_geo_id" ->
           [tool |-> "search_geo_id", endpoint |-> "/geo-id-search", always |-> {"search"},
            truthy |-> {},
            defined |-> {},
            rule |-> <<>>,
            ruleMsg |-> <<>>]
      [] OTHER ->
           [tool |-> "", endpoint |-> "", always |-> {}, truthy |-> {}, defined |-> {},
            rule |-> <<>>, ruleMsg |-> <<>>]

\* a variant of the second handler whose methods skip the argument rule
JsonEntrySkipsRule(toolName, a) ==
    IF MissingArguments(a)
    THEN [thrown |-> TRUE, error |-> McpError(InvalidParams, <<"Missing arguments">>)]
    ELSE LET m == JsonDispatch(toolName)
         IN  IF m.tool = ""
             THEN [thrown |-> TRUE,
                   error |-> McpError(MethodNotFound, <<"Unknown tool: ", toolName>>)]
             ELSE [thrown |-> FALSE,
                   request |-> [endpoint |-> m.endpoint, params |-> BuildParams(m, a.obj),
                                headers |-> requestHeaders]]

\* the second handler from its entry to the await of apiClient.get
JsonEntry(toolName, a) ==
    IF MissingArguments(a)
    THEN [thrown |-> TRUE, error |-> McpError(InvalidParams, <<"Missing arguments">>)]
    ELSE LET m == JsonDispatch(toolName)
         IN  IF m.tool = ""
             THEN [thrown |-> TRUE,
                   error |-> McpError(MethodNotFound, <<"Unknown tool: ", toolName>>)]
             ELSE LET params == BuildParams(m, a.obj)
                  IN  IF ~RuleSatisfied(m, params)
                      THEN [thrown |-> TRUE, error |-> Error(m.ruleMsg)]
                      ELSE [thrown |-> FALSE,
                            request |-> [endpoint |-> m.endpoint, params |-> params,
                                         headers |-> requestHeaders]]

---------------------------------------------------------------------------
(* C30 *)

\* what the second implementation does with the name and arguments of call c
JsonOutcome(c) == JsonEntry(name[c], args[c])

\* call c failed before any request was sent
FailedAtEntry(c) == Done(c) /\ requests[c] = <<>>

\* C30: the two implementations agree on validation and routing: for the name
\* and arguments of every call, either both accept or both fail with the same
\* error code and message, and when both accept they send the request to the
\* same endpoint.
C30_ImplementationsAgreeOnValidationAndRouting ==
    \A c \in CallIds :
        Started(c)
        => /\ FailedAtEntry(c) <=> JsonOutcome(c).thrown
           /\ FailedAtEntry(c) => result[c] = Failed(JsonOutcome(c).error)
           /\ ~FailedAtEntry(c)
                => /\ Len(requests[c]) = 1
                   /\ requests[c][1].endpoint = JsonOutcome(c).request.endpoint

\* both fail the argument rule of get_profile_comments with the same message
C30_Witness ==
    \E c \in CallIds :
        /\ FailedAtEntry(c) /\ IsObject(c) /\ name[c] = "get_profile_comments"
        /\ JsonOutcome(c).thrown
        /\ JsonOutcome(c).error.message
             = <<"At least one of ", "profile", " or ", "profileId", " is required">>
        /\ result[c].message = <<"HarvestAPI error: ">> \o JsonOutcome(c).error.message

=============================================================================
